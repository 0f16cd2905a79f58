------------------------- MODULE LayoutContractProofs -------------------------
(***************************************************************************)
(* ObservationBuilder and LayoutContract for every configuration: that the *)
(* frame is the layout the signature names, that the interfaces are bound  *)
(* as the terms name them, and that the bridge and the tools agree on the  *)
(* layout of every configuration both accept.                              *)
(***************************************************************************)
EXTENDS LayoutContract, SequenceTheorems, TLAPS, NaturalsInduction, WellFoundedInduction

----------------------------------------------------------------------------
(* The inductive invariant, in parts.                                      *)

IsSeq(s) == \E S : s \in Seq(S)

Unparsed == {"joints", "actions"}
Unbound == Unparsed \cup {"terms", "indexing", "settings"}
Ended == {"refused", "crashed"}
Phases == Unbound \cup {"binding", "control", "running"} \cup Ended

\* What a parsed term keeps of the term of its spec: everything but the index.
SpecAt(i) == ObservationSpecs(config)[i]
Parsed(i) == ObsTerm(SpecAt(i), config, ActionSize(config))
TermFields == DOMAIN NewTerm

TermsKept ==
    \A i \in DOMAIN terms :
        /\ ObsTermOk(SpecAt(i), config, ActionSize(config))
        /\ DOMAIN terms[i] = TermFields
        /\ \A field \in TermFields \ {"index"} : terms[i][field] = Parsed(i)[field]

TypesFit ==
    /\ phase \in Phases /\ config \in Configurations
    /\ IsSeq(terms) /\ IsSeq(slots) /\ IsSeq(term_slots) /\ Len(term_slots) = Len(terms)
    /\ \A i \in DOMAIN term_slots : IsSeq(term_slots[i])
    /\ DOMAIN cursor = {"term", "offset"} /\ cursor.term \in Nat \ {0} /\ cursor.offset \in Nat

ConfigRead ==
    /\ phase \notin Unparsed \cup {"refused"} =>
        /\ ActionTermsOk(config)
        /\ StringsOk(config.parameters, "observation_terms") /\ ObservationSpecs(config) # <<>>
        /\ TermsKept /\ Len(terms) <= Len(ObservationSpecs(config))
    /\ phase \in Unparsed => terms = <<>>
    /\ phase \in {"joints", "actions", "terms"} => cursor = Start
    /\ phase \notin Unparsed \cup {"terms", "refused"} => Len(terms) = Len(ObservationSpecs(config))

SettingsRead ==
    /\ phase \in {"settings", "binding", "control", "running", "crashed"} =>
        HistoryLengthOk(config) /\ DeclaredOk(config, "rl_obs_size", ObsSize)
    /\ phase \in {"binding", "control", "running", "crashed"} => SettingsOk(config) /\ FrameSize # 0

\* The terms before the cursor lie one after the other.
EndOf(i) == terms[i].index + terms[i].dim
InRow(n) ==
    /\ \A i \in 1..n : terms[i].index = IF i = 1 THEN 0 ELSE EndOf(i - 1)

OffsetsAssigned ==
    /\ phase = "indexing" =>
        /\ cursor.term <= Len(terms) + 1 /\ InRow(cursor.term - 1)
        /\ cursor.offset = IF cursor.term = 1 THEN 0 ELSE EndOf(cursor.term - 1)
    /\ phase \in {"settings", "binding", "control", "running", "crashed"} => InRow(Len(terms))

\* The slots, and what the terms have been bound to.
SlotsFit ==
    /\ phase \in Unbound => slots = <<>> /\ \A i \in DOMAIN term_slots : term_slots[i] = <<>>
    /\ \A i, j \in DOMAIN slots : slots[i].path = slots[j].path => i = j
    /\ \A i \in DOMAIN slots :
        slots[i].path \in DOMAIN output_map /\ slots[i].binding = output_map[slots[i].path]

\* A term has bound the slot, and accepts its type.
BoundByTerm(slot) ==
    \E t \in DOMAIN terms :
        slots[slot].path \in ToSet(terms[t].paths) /\ slots[slot].binding \in Candidates(terms[t])

TermsBound ==
    /\ \A i \in DOMAIN terms : \A j \in DOMAIN term_slots[i] :
        term_slots[i][j] # 0 =>
            /\ term_slots[i][j] \in DOMAIN slots
            /\ slots[term_slots[i][j]].path = terms[i].paths[j] /\ j \in DOMAIN terms[i].paths
            /\ BoundByTerm(term_slots[i][j])
    /\ phase = "binding" => \A slot \in DOMAIN slots : BoundByTerm(slot)

FrameBuilt == frame # <<>> => phase = "running" /\ frame = Pushed

Built ==
    /\ TypesFit /\ ConfigRead /\ SettingsRead /\ OffsetsAssigned /\ SlotsFit /\ TermsBound
    /\ CrashNeedsConflict /\ FrameBuilt

----------------------------------------------------------------------------
(* Maxima and minima. *)

LEMMA LeastExists ==
    ASSUME NEW S \in SUBSET Nat, S # {}
    PROVE  \E m \in S : \A k \in S : m <= k
<1>1. IsWellFoundedOn({p \in Nat \X Nat : p[1] < p[2]}, Nat)
    BY NatLessThanWellFounded DEF OpToRel
<1>2. PICK m \in S : \A k \in S : ~(<<k, m>> \in {p \in Nat \X Nat : p[1] < p[2]})
    <2> DEFINE R == {p \in Nat \X Nat : p[1] < p[2]}
    <2>1. IsWellFoundedOn(R, Nat) /\ S \subseteq Nat
        BY <1>1
    <2>2. \E m \in S : \A k \in S : ~(<<k, m>> \in R)
        BY <2>1, WFMin
    <2> QED
        BY <2>2
<1>3. \A k \in S : ~(k < m)
    BY <1>2
<1> QED
    BY <1>3

LEMMA MinIs ==
    ASSUME NEW S \in SUBSET Nat, S # {}
    PROVE  Min(S) \in S /\ \A k \in S : Min(S) <= k
BY LeastExists DEF Min

LEMMA MaxIs ==
    ASSUME NEW S \in SUBSET Nat, NEW m \in S, \A x \in S : m >= x
    PROVE  Max(S) = m
<1> DEFINE P(x) == \A y \in S : x >= y
<1>1. \E x \in S : P(x)
    OBVIOUS
<1>2. Max(S) = CHOOSE x \in S : P(x)
    BY DEF Max
<1>3. Max(S) \in S /\ P(Max(S))
    <2> HIDE DEF P
    <2> QED
        BY <1>1, <1>2
<1>4. Max(S) \in S /\ Max(S) >= m
    BY <1>3
<1>5. \A x \in S : x \in Int
    OBVIOUS
<1>6. m \in Int /\ Max(S) \in Int /\ m >= Max(S)
    BY <1>4, <1>5
<1> QED
    BY <1>4, <1>6

LEMMA MaxExists ==
    ASSUME NEW n \in Nat, NEW S \in SUBSET (1..n), S # {}
    PROVE  Max(S) \in S
<1> DEFINE Bounds == {m \in Nat : \A x \in S : x <= m}
<1>1. n \in Bounds
    OBVIOUS
<1>2. PICK m \in Bounds : \A k \in Bounds : m <= k
    BY <1>1, LeastExists
<1>3. m \in S
    <2>1. SUFFICES ASSUME m \notin S PROVE FALSE
        OBVIOUS
    <2>2. \A x \in S : x \in Nat /\ x > 0 /\ x <= m /\ x # m
        BY <2>1, <1>2
    <2>3. PICK x \in S : x \in Nat /\ x > 0 /\ x <= m /\ x # m
        BY <2>2
    <2>4. m \in Nat /\ m - 1 \in Nat
        BY <2>3
    <2>5. \A y \in S : y <= m - 1
        <3>1. TAKE y \in S
        <3>2. y \in Nat /\ y <= m /\ y # m
            BY <2>2
        <3> QED
            BY <2>4, <3>2
    <2> QED
        BY <1>2, <2>3, <2>4, <2>5
<1>4. \A x \in S : m >= x
    BY <1>2
<1> QED
    BY <1>3, <1>4, MaxIs

----------------------------------------------------------------------------
(* The sum of the dimensions of terms or entries. *)

\* The fold by which the bridge and the tools take it, unfolded.
DimSum(items) ==
    (CHOOSE table : table = [s \in SUBSET (DOMAIN items) |->
        IF s = {} THEN 0 ELSE table[s \ {Max(s)}] + items[Max(s)].dim])[DOMAIN items]

LEMMA FrameSizeIs == FrameSize = DimSum(terms)
BY DEF FrameSize, FoldLeft, MapThenFoldSet, DimSum

LEMMA ToolOffsetIs ==
    ASSUME NEW entries, NEW i
    PROVE  ToolOffset(entries, i) = DimSum(SubSeq(entries, 1, i - 1))
BY DEF ToolOffset, FoldLeft, MapThenFoldSet, DimSum

\* The table that defines the fold exists.
LEMMA DimTable ==
    ASSUME NEW items, NEW n \in Nat
    PROVE  \E table : table = [s \in SUBSET (1..n) |->
                IF s = {} THEN 0 ELSE table[s \ {Max(s)}] + items[Max(s)].dim]
<1> DEFINE Tabled(k) == \E table : table = [s \in SUBSET (1..k) |->
                        IF s = {} THEN 0 ELSE table[s \ {Max(s)}] + items[Max(s)].dim]
           Bad == {k \in Nat : ~Tabled(k)}
<1>1. SUFFICES ASSUME Bad # {} PROVE FALSE
    OBVIOUS
<1>2. PICK m \in Bad : \A k \in Bad : m <= k
    <2> HIDE DEF Tabled
    <2> QED
        BY <1>1, LeastExists
<1>3. CASE m = 0
    <2> DEFINE h == [s \in SUBSET (1..0) |-> 0]
    <2>1. h = [s \in SUBSET (1..0) |-> IF s = {} THEN 0 ELSE h[s \ {Max(s)}] + items[Max(s)].dim]
        OBVIOUS
    <2>2. Tabled(0)
        BY <2>1
    <2> QED
        BY <1>2, <1>3, <2>2
<1>4. CASE m # 0
    <2>1. m - 1 \in Nat /\ m \in Nat /\ 1..(m - 1) \subseteq 1..m
        BY <1>4
    <2>2. Tabled(m - 1)
        <3> HIDE DEF Tabled
        <3> QED
            BY <1>2, <2>1
    <2>3. PICK g : g = [s \in SUBSET (1..(m - 1)) |->
                        IF s = {} THEN 0 ELSE g[s \ {Max(s)}] + items[Max(s)].dim]
        BY <2>2
    <2> DEFINE h == [s \in SUBSET (1..m) |-> IF m \in s THEN g[s \ {m}] + items[m].dim ELSE g[s]]
    <2>4. ASSUME NEW s \in SUBSET (1..m)
          PROVE  h[s] = IF s = {} THEN 0 ELSE h[s \ {Max(s)}] + items[Max(s)].dim
        <3>1. CASE s = {}
            BY <3>1, <2>3
        <3>2. CASE m \in s
            <4>1. Max(s) = m
                BY <3>2, <2>1, MaxIs
            <4>2. s \ {m} \in SUBSET (1..m) /\ m \notin s \ {m}
                OBVIOUS
            <4> QED
                BY <3>2, <4>1, <4>2
        <3>3. CASE s # {} /\ m \notin s
            <4>1. s \in SUBSET (1..(m - 1))
                BY <3>3, <2>1
            <4>2. Max(s) \in s
                BY <3>3, <4>1, <2>1, MaxExists
            <4>3. s \ {Max(s)} \in SUBSET (1..m) /\ m \notin s \ {Max(s)}
                BY <3>3
            <4>4. h[s] = g[s] /\ h[s \ {Max(s)}] = g[s \ {Max(s)}]
                BY <3>3, <4>3
            <4>5. g[s] = g[s \ {Max(s)}] + items[Max(s)].dim
                BY <2>3, <4>1, <3>3
            <4> QED
                BY <3>3, <4>4, <4>5
        <3> QED
            BY <3>1, <3>2, <3>3
    <2>5. h = [s \in SUBSET (1..m) |-> IF s = {} THEN 0 ELSE h[s \ {Max(s)}] + items[Max(s)].dim]
        <3> DEFINE f == [s \in SUBSET (1..m) |-> IF s = {} THEN 0 ELSE h[s \ {Max(s)}] + items[Max(s)].dim]
        <3>1. \A s \in SUBSET (1..m) : h[s] = f[s]
            <4> HIDE DEF h
            <4> QED
                BY <2>4
        <3>2. h = [s \in SUBSET (1..m) |-> h[s]]
            OBVIOUS
        <3>3. f = [s \in SUBSET (1..m) |-> f[s]]
            BY Zenon
        <3> HIDE DEF h, f
        <3>4. h = f
            BY <3>1, <3>2, <3>3
        <3> QED
            BY <3>4 DEF f
    <2>6. Tabled(m)
        <3> HIDE DEF h
        <3> QED
            BY <2>5
    <2> QED
        BY <1>2, <2>6
<1> QED
    BY <1>3, <1>4

\* It adds from the left.
LEMMA DimUnfolds ==
    ASSUME NEW n \in Nat, NEW items, DOMAIN items = 1..n
    PROVE  \E p : p[0] = 0 /\ (\A k \in 1..n : p[k] = p[k - 1] + items[k].dim) /\ DimSum(items) = p[n]
<1> DEFINE Defines(t) == t = [s \in SUBSET (1..n) |->
                            IF s = {} THEN 0 ELSE t[s \ {Max(s)}] + items[Max(s)].dim]
           table == CHOOSE t : Defines(t)
           p == [k \in 0..n |-> table[1..k]]
<1>1. DimSum(items) = table[1..n]
    BY DEF DimSum
<1>2. Defines(table)
    <2>1. \E t : Defines(t)
        BY DimTable
    <2> HIDE DEF Defines
    <2> QED
        BY <2>1
<1> HIDE DEF table
<1>3. p[0] = 0
    <2>1. 1..0 = {}
        OBVIOUS
    <2> QED
        BY <1>2, <2>1
<1>4. ASSUME NEW k \in 1..n
      PROVE  p[k] = p[k - 1] + items[k].dim
    <2>1. 1..k \in SUBSET (1..n) /\ 1..k # {} /\ (1..k) \ {k} = 1..(k - 1)
        OBVIOUS
    <2>2. Max(1..k) = k
        BY MaxIs
    <2>3. table[1..k] = table[1..(k - 1)] + items[k].dim
        BY <1>2, <2>1, <2>2
    <2>4. k \in 0..n /\ k - 1 \in 0..n
        OBVIOUS
    <2> QED
        BY <2>3, <2>4
<1>5. DimSum(items) = p[n]
    BY <1>1
<1> HIDE DEF p
<1> QED
    BY <1>3, <1>4, <1>5

----------------------------------------------------------------------------
(* Sequences. *)

LEMMA SeqIs ==
    ASSUME NEW s, IsSeq(s)
    PROVE  Len(s) \in Nat /\ DOMAIN s = 1..Len(s)
BY DEF IsSeq

LEMMA EmptyIs == IsSeq(<<>>)
<1>1. <<>> \in Seq({})
    OBVIOUS
<1> QED
    BY <1>1 DEF IsSeq

LEMMA AppendIs ==
    ASSUME NEW s, IsSeq(s), NEW e
    PROVE  /\ IsSeq(Append(s, e)) /\ Len(Append(s, e)) = Len(s) + 1
           /\ \A i \in 1..Len(s) : Append(s, e)[i] = s[i]
           /\ Append(s, e)[Len(s) + 1] = e
<1>1. PICK S : s \in Seq(S)
    BY DEF IsSeq
<1> DEFINE W == S \cup {e}
<1>2. s \in Seq(W) /\ e \in W
    BY <1>1
<1> HIDE DEF W
<1>3. Append(s, e) \in Seq(W)
    BY <1>2
<1> QED
    BY <1>2, <1>3, AppendProperties DEF IsSeq

\* A change of one element keeps a sequence.
LEMMA ExceptIs ==
    ASSUME NEW s, IsSeq(s), NEW k \in 1..Len(s), NEW e
    PROVE  /\ IsSeq([s EXCEPT ![k] = e]) /\ Len([s EXCEPT ![k] = e]) = Len(s)
           /\ \A i \in DOMAIN s : [s EXCEPT ![k] = e][i] = IF i = k THEN e ELSE s[i]
<1>1. PICK S : s \in Seq(S)
    BY DEF IsSeq
<1> DEFINE W == S \cup {e}
           t == [s EXCEPT ![k] = e]
<1>2. s \in Seq(W) /\ e \in W
    BY <1>1
<1> HIDE DEF W
<1>3. /\ t \in Seq(W) /\ Len(t) = Len(s)
      /\ \A j \in 1..Len(s) : t[j] = IF j = k THEN e ELSE s[j]
    BY <1>2, ExceptSeq
<1> QED
    BY <1>2, <1>3 DEF IsSeq

LEMMA SeqOfIs ==
    ASSUME NEW n \in Nat, NEW f, DOMAIN f = 1..n, f = [i \in 1..n |-> f[i]]
    PROVE  IsSeq(f) /\ Len(f) = n
<1> DEFINE S == {f[i] : i \in 1..n}
<1>1. f \in [1..n -> S]
    BY Zenon
<1>2. f \in Seq(S)
    BY <1>1, SeqDef
<1>3. DOMAIN f = 1..Len(f) /\ Len(f) \in Nat
    BY <1>2, LenProperties
<1>4. Len(f) = n
    BY <1>1, <1>3
<1> QED
    BY <1>2, <1>4 DEF IsSeq

LEMMA ConcatIs ==
    ASSUME NEW a, NEW b, IsSeq(a), IsSeq(b)
    PROVE  /\ IsSeq(a \o b) /\ Len(a \o b) = Len(a) + Len(b)
           /\ \A i \in 1..Len(a) : (a \o b)[i] = a[i]
           /\ \A i \in 1..Len(b) : (a \o b)[Len(a) + i] = b[i]
<1>1. PICK A, B : a \in Seq(A) /\ b \in Seq(B)
    BY DEF IsSeq
<1> DEFINE S == A \cup B
           c == a \o b
<1>2. a \in Seq(S) /\ b \in Seq(S)
    BY <1>1
<1> HIDE DEF S
<1>3. /\ c \in Seq(S) /\ Len(c) = Len(a) + Len(b)
      /\ \A i \in 1..Len(a) + Len(b) : c[i] = IF i <= Len(a) THEN a[i] ELSE b[i - Len(a)]
    BY <1>2, ConcatProperties
<1> HIDE DEF c
<1>4. Len(a) \in Nat /\ Len(b) \in Nat
    BY <1>2
<1>5. ASSUME NEW i \in 1..Len(a)
      PROVE  c[i] = a[i]
    BY <1>3, <1>4
<1>6. ASSUME NEW i \in 1..Len(b)
      PROVE  c[Len(a) + i] = b[i]
    <2>1. Len(a) + i \in 1..Len(a) + Len(b) /\ ~(Len(a) + i <= Len(a)) /\ (Len(a) + i) - Len(a) = i
        BY <1>4
    <2> QED
        BY <1>3, <2>1
<1>7. IsSeq(c)
    BY <1>3 DEF IsSeq
<1> QED
    BY <1>3, <1>5, <1>6, <1>7 DEF c

\* The table that defines the concatenation of sequences exists.
LEMMA FlattenTable ==
    ASSUME NEW seqs, NEW n \in Nat
    PROVE  \E table : table = [i \in 1..n |-> IF i = 1 THEN seqs[i] ELSE table[i - 1] \o seqs[i]]
<1> DEFINE Tabled(k) == \E table : table = [i \in 1..k |-> IF i = 1 THEN seqs[i] ELSE table[i - 1] \o seqs[i]]
           Bad == {k \in Nat : ~Tabled(k)}
<1>1. SUFFICES ASSUME Bad # {} PROVE FALSE
    OBVIOUS
<1>2. PICK m \in Bad : \A k \in Bad : m <= k
    <2> HIDE DEF Tabled
    <2> QED
        BY <1>1, LeastExists
<1>3. CASE m = 0
    <2> DEFINE h == [i \in 1..0 |-> seqs[i]]
    <2>1. h = [i \in 1..0 |-> IF i = 1 THEN seqs[i] ELSE h[i - 1] \o seqs[i]]
        OBVIOUS
    <2>2. Tabled(0)
        BY <2>1
    <2> QED
        BY <1>2, <1>3, <2>2
<1>4. CASE m # 0
    <2>1. m - 1 \in Nat /\ m \in Nat
        BY <1>4
    <2>2. Tabled(m - 1)
        <3> HIDE DEF Tabled
        <3> QED
            BY <1>2, <2>1
    <2>3. PICK g : g = [i \in 1..(m - 1) |-> IF i = 1 THEN seqs[i] ELSE g[i - 1] \o seqs[i]]
        BY <2>2
    <2> DEFINE h == [i \in 1..m |-> IF i < m THEN g[i] ELSE IF m = 1 THEN seqs[m] ELSE g[m - 1] \o seqs[m]]
    <2>4. ASSUME NEW i \in 1..m
          PROVE  h[i] = IF i = 1 THEN seqs[i] ELSE h[i - 1] \o seqs[i]
        <3>1. i # 1 => i - 1 \in 1..m /\ i - 1 < m /\ h[i - 1] = g[i - 1]
            BY <2>1
        <3>2. CASE i = m
            BY <3>1, <3>2
        <3>3. CASE i # m
            <4>1. i \in 1..(m - 1) /\ h[i] = g[i]
                BY <2>1, <3>3
            <4>2. g[i] = IF i = 1 THEN seqs[i] ELSE g[i - 1] \o seqs[i]
                BY <2>3, <4>1
            <4> QED
                BY <3>1, <4>1, <4>2
        <3> QED
            BY <3>2, <3>3
    <2>5. h = [i \in 1..m |-> IF i = 1 THEN seqs[i] ELSE h[i - 1] \o seqs[i]]
        <3> DEFINE f == [i \in 1..m |-> IF i = 1 THEN seqs[i] ELSE h[i - 1] \o seqs[i]]
        <3>1. \A i \in 1..m : h[i] = f[i]
            <4> HIDE DEF h
            <4> QED
                BY <2>4
        <3>2. h = [i \in 1..m |-> h[i]]
            OBVIOUS
        <3>3. f = [i \in 1..m |-> f[i]]
            OBVIOUS
        <3> HIDE DEF h, f
        <3>4. h = f
            BY <3>1, <3>2, <3>3
        <3> QED
            BY <3>4 DEF f
    <2>6. Tabled(m)
        <3> HIDE DEF h
        <3> QED
            BY <2>5
    <2> QED
        BY <1>2, <2>6
<1> QED
    BY <1>3, <1>4

LEMMA FlattenUnfolds ==
    ASSUME NEW seqs, Len(seqs) \in Nat, Len(seqs) # 0
    PROVE  \E f : /\ f[1] = seqs[1] /\ \A k \in 2..Len(seqs) : f[k] = f[k - 1] \o seqs[k]
                 /\ FlattenSeq(seqs) = f[Len(seqs)]
<1> DEFINE Defines(t) == t = [i \in 1..Len(seqs) |-> IF i = 1 THEN seqs[i] ELSE t[i - 1] \o seqs[i]]
           table == CHOOSE t : Defines(t)
<1>1. FlattenSeq(seqs) = table[Len(seqs)]
    BY DEF FlattenSeq
<1>2. Defines(table)
    <2>1. \E t : Defines(t)
        BY FlattenTable
    <2> HIDE DEF Defines
    <2> QED
        BY <2>1
<1> HIDE DEF table
<1>3. 1 \in 1..Len(seqs) /\ \A k \in 2..Len(seqs) : k \in 1..Len(seqs) /\ k # 1
    OBVIOUS
<1>4. table[1] = seqs[1]
    BY <1>2, <1>3
<1>5. ASSUME NEW k \in 2..Len(seqs)
      PROVE  table[k] = table[k - 1] \o seqs[k]
    <2>1. k \in 1..Len(seqs) /\ k # 1
        BY <1>3
    <2>2. table[k] = IF k = 1 THEN seqs[k] ELSE table[k - 1] \o seqs[k]
        BY <1>2, <2>1
    <2> QED
        BY <2>1, <2>2
<1> HIDE DEF Defines
<1> QED
    BY <1>1, <1>4, <1>5

\* The concatenation of sequences is one.
LEMMA FlattenIs ==
    ASSUME NEW seqs, IsSeq(seqs), \A i \in 1..Len(seqs) : IsSeq(seqs[i])
    PROVE  IsSeq(FlattenSeq(seqs))
<1>1. Len(seqs) \in Nat
    BY SeqIs
<1>2. CASE Len(seqs) = 0
    <2>1. seqs = <<>>
        BY <1>2 DEF IsSeq
    <2>2. FlattenSeq(seqs) = seqs
        BY <1>2 DEF FlattenSeq
    <2> QED
        BY <2>2
<1>3. CASE Len(seqs) # 0
    <2>1. PICK f : /\ f[1] = seqs[1] /\ \A k \in 2..Len(seqs) : f[k] = f[k - 1] \o seqs[k]
                   /\ FlattenSeq(seqs) = f[Len(seqs)]
        BY <1>1, <1>3, FlattenUnfolds
    <2> DEFINE Bad == {k \in 1..Len(seqs) : ~IsSeq(f[k])}
    <2>2. SUFFICES ASSUME Bad # {} PROVE FALSE
        BY <1>1, <1>3, <2>1
    <2>3. PICK m \in Bad : \A k \in Bad : m <= k
        <3>1. Bad \in SUBSET Nat
            OBVIOUS
        <3> HIDE DEF Bad
        <3> QED
            BY <2>2, <3>1, LeastExists
    <2>4. m # 1
        BY <1>1, <1>3, <2>1
    <2>5. m \in 2..Len(seqs) /\ m - 1 \in 1..Len(seqs)
        BY <1>1, <2>4
    <2>6. IsSeq(f[m - 1])
        BY <1>1, <2>3, <2>5
    <2>7. IsSeq(seqs[m]) /\ f[m] = f[m - 1] \o seqs[m]
        BY <2>1, <2>5
    <2>8. IsSeq(f[m - 1] \o seqs[m])
        BY <2>6, <2>7, ConcatIs
    <2>9. IsSeq(f[m])
        BY <2>7, <2>8
    <2> QED
        BY <2>3, <2>9
<1> QED
    BY <1>2, <1>3

----------------------------------------------------------------------------
(* What a spec says, and the term it stands for.                            *)

LEMMA ValueIs ==
    ASSUME NEW spec, IsSpec(spec), NEW key, Has(spec, key)
    PROVE  \E i \in 1..Len(spec) :
                spec[i][1] = key /\ Value(spec, key) = spec[i][2] /\ IsToken(spec[i])
<1> DEFINE I == {i \in 1..Len(spec) : spec[i][1] = key}
<1>1. Len(spec) \in Nat /\ DOMAIN spec = 1..Len(spec)
    BY DEF IsSpec
<1>2. I # {} /\ I \in SUBSET Nat
    BY <1>1 DEF Has, Keys
<1>3. Value(spec, key) = spec[Min(I)][2]
    BY <1>2 DEF Value, SelectInSeq
<1>4. Min(I) \in I
    <2> HIDE DEF I
    <2> QED
        BY <1>2, MinIs
<1>5. IsToken(spec[Min(I)])
    BY <1>1, <1>4 DEF IsSpec
<1> QED
    BY <1>3, <1>4, <1>5

LEMMA SplitIs ==
    ASSUME NEW S, NEW pieces \in Seq(S), pieces # <<>>
    PROVE  /\ SplitBy(pieces) \in Seq(S)
           /\ \A i \in 1..Len(SplitBy(pieces)) : i \in 1..Len(pieces) /\ SplitBy(pieces)[i] = pieces[i]
<1>1. Len(pieces) \in Nat \ {0} /\ DOMAIN pieces = 1..Len(pieces)
    OBVIOUS
<1>2. /\ Front(pieces) \in Seq(S) /\ Len(Front(pieces)) = Len(pieces) - 1
      /\ \A i \in 1..(Len(pieces) - 1) : Front(pieces)[i] = pieces[i]
    <2> DEFINE n == Len(pieces) - 1
    <2>1. n \in Nat /\ \A i \in 1..n : pieces[i] \in S
        BY <1>1
    <2>2. /\ SubSeq(pieces, 1, n) \in Seq(S)
          /\ Len(SubSeq(pieces, 1, n)) = IF 1 <= n THEN n - 1 + 1 ELSE 0
          /\ \A i \in 1..(n - 1 + 1) : SubSeq(pieces, 1, n)[i] = pieces[1 + i - 1]
        <3> HIDE DEF n
        <3> QED
            BY <2>1, SubSeqProperties
    <2>3. Front(pieces) = SubSeq(pieces, 1, n)
        BY DEF Front
    <2> HIDE DEF n
    <2>4. Len(Front(pieces)) = n
        BY <2>1, <2>2, <2>3
    <2>5. ASSUME NEW i \in 1..n
          PROVE  Front(pieces)[i] = pieces[i]
        <3>1. i \in 1..(n - 1 + 1) /\ 1 + i - 1 = i
            BY <2>1
        <3> QED
            BY <2>2, <2>3, <3>1
    <2>6. n = Len(pieces) - 1
        BY DEF n
    <2> QED
        BY <2>2, <2>3, <2>4, <2>5, <2>6
<1> QED
    BY <1>1, <1>2 DEF SplitBy

LEMMA FiniteIs ==
    ASSUME NEW number \in Numbers, Finite(number)
    PROVE  number \in Int
BY DEF Numbers, Finite

LEMMA ExpandedIs ==
    ASSUME NEW piece \in Seq(Numbers), Len(piece) \in 1..2, NEW limit \in Nat, PieceOk(piece, limit)
    PROVE  IsSeq(Expanded(piece))
<1>1. CASE Len(piece) = 1
    BY <1>1 DEF Expanded, IsSeq
<1>2. CASE Len(piece) = 2
    <2>1. piece[1] \in Int /\ piece[2] \in Int
        <3>1. \A i \in 1..Len(piece) : piece[i] \in Numbers /\ Finite(piece[i])
            BY DEF PieceOk
        <3>2. \A i \in 1..Len(piece) : piece[i] \in Int
            BY <3>1, FiniteIs
        <3> QED
            BY <1>2, <3>2
    <2>2. piece[1] <= piece[2]
        BY <1>2 DEF PieceOk
    <2> DEFINE n == piece[2] - piece[1] + 1
               f == [i \in 1..n |-> piece[1] + i - 1]
    <2>3. n \in Nat
        BY <2>1, <2>2
    <2>4. Expanded(piece) = f
        BY <1>2 DEF Expanded
    <2>5. DOMAIN f = 1..n /\ f = [i \in 1..n |-> f[i]]
        OBVIOUS
    <2> HIDE DEF n, f
    <2> QED
        BY <2>3, <2>4, <2>5, SeqOfIs
<1> QED
    BY <1>1, <1>2

LEMMA IndicesAre ==
    ASSUME NEW spec, IsSpec(spec), Has(spec, "indices"), NEW limit \in Nat, LastActionOk(spec, limit)
    PROVE  IsSeq(ExpandedAll(SplitBy(Value(spec, "indices"))))
<1> DEFINE value == Value(spec, "indices")
           pieces == SplitBy(value)
           lists == [i \in DOMAIN pieces |-> Expanded(pieces[i])]
<1>1. /\ value \in Seq({Empty} \cup Seq(Numbers)) /\ value # <<>>
      /\ \A i \in DOMAIN value : value[i] # Empty => Len(value[i]) \in 1..2
    <2>1. PICK i \in 1..Len(spec) : spec[i][1] = "indices" /\ value = spec[i][2] /\ IsToken(spec[i])
        BY ValueIs
    <2> QED
        BY <2>1 DEF IsToken
<1>2. /\ pieces \in Seq({Empty} \cup Seq(Numbers))
      /\ \A i \in 1..Len(pieces) : i \in 1..Len(value) /\ pieces[i] = value[i]
    <2> HIDE DEF value
    <2> QED
        BY <1>1, SplitIs
<1>3. Len(pieces) \in Nat /\ DOMAIN pieces = 1..Len(pieces)
    BY <1>2
<1>4. ASSUME NEW i \in 1..Len(pieces)
      PROVE  IsSeq(Expanded(pieces[i]))
    <2>1. PieceOk(pieces[i], limit)
        BY <1>3 DEF LastActionOk, ToSet
    <2>2. pieces[i] # Empty /\ pieces[i] \in {Empty} \cup Seq(Numbers)
        BY <2>1, <1>2, <1>3 DEF PieceOk
    <2>3. Len(pieces[i]) \in 1..2
        BY <2>2, <1>1, <1>2
    <2> QED
        BY <2>1, <2>2, <2>3, ExpandedIs
<1>5. IsSeq(lists) /\ Len(lists) = Len(pieces)
    <2>1. DOMAIN lists = 1..Len(pieces) /\ lists = [i \in 1..Len(pieces) |-> lists[i]]
        BY <1>3
    <2> HIDE DEF lists
    <2> QED
        BY <1>3, <2>1, SeqOfIs
<1>6. \A i \in 1..Len(lists) : IsSeq(lists[i])
    BY <1>3, <1>4, <1>5
<1>7. IsSeq(FlattenSeq(lists))
    <2> HIDE DEF lists
    <2> QED
        BY <1>5, <1>6, FlattenIs
<1> QED
    BY <1>7 DEF ExpandedAll

\* What every parsed term is like.
Takes == {"scalar", "component", "vector", "gravity"}

Shaped(term) ==
    /\ DOMAIN term = TermFields
    /\ term.dim \in Nat /\ IsSeq(term.paths) /\ term.take \in Takes
    /\ term.kind \in JointKinds \cup {"last_action", "constant", "path"}
    /\ term.kind \in JointKinds => term.take = "scalar"
    /\ term.type # "" => term.type \in Suited(term.take)

LEMMA JointTermIs ==
    ASSUME NEW spec, IsSpec(spec), NEW c, JointTermOk(spec, c), Text(spec, "type") \in JointKinds
    PROVE  Shaped(JointTerm(spec, c))
<1> DEFINE value == Value(spec, "joints")
           joints == SplitBy(value)
           kind == Text(spec, "type")
           paths == [i \in DOMAIN joints |-> JointPath(c, joints[i], JointField[kind])]
           term == JointTerm(spec, c)
<1>1. value \in Seq(STRING \cup {Empty}) /\ value # <<>>
    <2>1. Has(spec, "joints")
        BY DEF JointTermOk
    <2>2. PICK i \in 1..Len(spec) : spec[i][1] = "joints" /\ value = spec[i][2] /\ IsToken(spec[i])
        BY <2>1, ValueIs
    <2> QED
        BY <2>2 DEF IsToken
<1>2. joints \in Seq(STRING \cup {Empty})
    <2> HIDE DEF value
    <2> QED
        BY <1>1, SplitIs
<1>3. Len(joints) \in Nat /\ DOMAIN joints = 1..Len(joints)
    BY <1>2
<1>4. IsSeq(paths)
    <2>1. DOMAIN paths = 1..Len(joints) /\ paths = [i \in 1..Len(joints) |-> paths[i]]
        BY <1>3
    <2> HIDE DEF paths
    <2> QED
        BY <1>3, <2>1, SeqOfIs
<1>5. /\ DOMAIN term = TermFields
      /\ term.dim = Len(joints) /\ term.paths = paths /\ term.take = "scalar" /\ term.kind = kind /\ term.type = ""
    BY DEF JointTerm, TermFields, NewTerm
<1> HIDE DEF term, paths, joints, kind
<1>6. kind \in JointKinds
    BY DEF kind
<1>7. Shaped(term)
    BY <1>3, <1>4, <1>5, <1>6 DEF Shaped, Takes
<1> QED
    BY <1>7 DEF term

LEMMA LastActionTermIs ==
    ASSUME NEW spec, IsSpec(spec), NEW n \in Nat, LastActionOk(spec, n)
    PROVE  Shaped(LastActionTerm(spec, n))
<1> DEFINE indices == IF Has(spec, "indices") THEN ExpandedAll(SplitBy(Value(spec, "indices")))
                      ELSE [i \in 1..n |-> i - 1]
           term == LastActionTerm(spec, n)
<1>1. IsSeq(indices)
    <2>1. CASE Has(spec, "indices")
        BY <2>1, IndicesAre
    <2>2. CASE ~Has(spec, "indices")
        <3> DEFINE f == [i \in 1..n |-> i - 1]
        <3>1. DOMAIN f = 1..n /\ f = [i \in 1..n |-> f[i]]
            OBVIOUS
        <3> HIDE DEF f
        <3>2. IsSeq(f)
            BY <3>1, SeqOfIs
        <3> QED
            BY <2>2, <3>2 DEF f
    <2> QED
        BY <2>1, <2>2
<1>2. Len(indices) \in Nat
    <2> HIDE DEF indices
    <2> QED
        BY <1>1, SeqIs
<1>3. /\ DOMAIN term = TermFields
      /\ term.dim = Len(indices) /\ term.paths = <<>> /\ term.take = "scalar" /\ term.kind = "last_action"
      /\ term.type = ""
    BY DEF LastActionTerm, TermFields, NewTerm
<1> HIDE DEF term, indices
<1>4. "last_action" \notin JointKinds
    BY DEF JointKinds, JointField
<1>5. Shaped(term)
    BY <1>2, <1>3, <1>4, EmptyIs DEF Shaped, Takes
<1> QED
    BY <1>5 DEF term

LEMMA ConstantTermIs ==
    ASSUME NEW spec, IsSpec(spec), ConstantOk(spec)
    PROVE  Shaped(ConstantTerm(spec))
<1> DEFINE value == Value(spec, "value")
           constants == SplitBy(value)
           term == ConstantTerm(spec)
<1>1. value \in Seq(Numbers) /\ value # <<>>
    <2>1. Has(spec, "value")
        BY DEF ConstantOk
    <2>2. PICK i \in 1..Len(spec) : spec[i][1] = "value" /\ value = spec[i][2] /\ IsToken(spec[i])
        BY <2>1, ValueIs
    <2> QED
        BY <2>2 DEF IsToken
<1>2. constants \in Seq(Numbers)
    <2> HIDE DEF value
    <2> QED
        BY <1>1, SplitIs
<1>3. Len(constants) \in Nat
    BY <1>2
<1>4. /\ DOMAIN term = TermFields
      /\ term.dim = Len(constants) /\ term.paths = <<>> /\ term.take = "scalar" /\ term.kind = "constant"
      /\ term.type = ""
    BY DEF ConstantTerm, TermFields, NewTerm
<1> HIDE DEF term, constants
<1>5. "constant" \notin JointKinds
    BY DEF JointKinds, JointField
<1>6. Shaped(term)
    BY <1>3, <1>4, <1>5, EmptyIs DEF Shaped, Takes
<1> QED
    BY <1>6 DEF term

LEMMA TakeIs ==
    ASSUME NEW axis, NEW transform, TakeOf(axis, transform) # "unknown"
    PROVE  TakeOf(axis, transform) \in Takes
BY DEF TakeOf, Takes

LEMMA PathTermIs ==
    ASSUME NEW spec, PathTermOk(spec)
    PROVE  Shaped(PathTerm(spec))
<1> DEFINE path == Text(spec, "path")
           type == Text(spec, "type")
           take == TakeOf(Text(spec, "take"), Text(spec, "transform"))
           term == PathTerm(spec)
<1>1. take \in Takes
    <2>1. take # "unknown"
        BY DEF PathTermOk
    <2> QED
        BY <2>1, TakeIs
<1>2. /\ DOMAIN term = TermFields
      /\ (term.dim = 1 \/ term.dim = 3) /\ term.paths = <<path>> /\ term.take = take /\ term.kind = "path"
      /\ term.type = IF type = "" THEN "" ELSE Binding(type)
    BY DEF PathTerm, TermFields, NewTerm
<1>3. type # "" => Binding(type) \in Suited(take)
    BY DEF PathTermOk
<1>4. IsSeq(<<path>>)
    <2>1. <<path>> \in Seq({path})
        OBVIOUS
    <2> QED
        BY <2>1 DEF IsSeq
<1> HIDE DEF term, take, type, path
<1>5. "path" \notin JointKinds
    BY DEF JointKinds, JointField
<1>6. term.type # "" => term.type \in Suited(term.take)
    BY <1>2, <1>3
<1>7. term.dim \in Nat /\ IsSeq(term.paths)
    <2>1. term.dim \in Nat
        <3>1. term.dim = 1 \/ term.dim = 3
            BY <1>2, Zenon
        <3> QED
            BY <3>1
    <2>2. term.paths = <<path>>
        BY <1>2
    <2>3. IsSeq(term.paths)
        BY <1>4, <2>2
    <2> QED
        BY <2>1, <2>3
<1>8. Shaped(term)
    BY <1>1, <1>2, <1>5, <1>6, <1>7 DEF Shaped
<1> QED
    BY <1>8 DEF term

LEMMA FinishedIs ==
    ASSUME NEW spec, NEW term, Shaped(term)
    PROVE  Shaped(Finished(spec, term))
<1> DEFINE new == Finished(spec, term)
<1>1. /\ DOMAIN new = DOMAIN term
      /\ new.dim = term.dim /\ new.paths = term.paths /\ new.take = term.take /\ new.kind = term.kind
      /\ new.type = term.type
    BY DEF Finished, Shaped, TermFields, NewTerm
<1> HIDE DEF new
<1>2. Shaped(new)
    BY <1>1 DEF Shaped
<1> QED
    BY <1>2 DEF new

LEMMA ObsTermIs ==
    ASSUME NEW spec, IsSpec(spec), NEW c, NEW n \in Nat, ObsTermOk(spec, c, n)
    PROVE  Shaped(ObsTerm(spec, c, n))
<1>1. /\ "last_action" \notin JointKinds /\ "constant" \notin JointKinds
    BY DEF JointKinds, JointField
<1>2. CASE Text(spec, "type") \in JointKinds
    <2>1. JointTermOk(spec, c)
        BY <1>2, <1>1 DEF ObsTermOk
    <2>2. ObsTerm(spec, c, n) = Finished(spec, JointTerm(spec, c))
        BY <1>2, <1>1 DEF ObsTerm
    <2> QED
        BY <1>2, <2>1, <2>2, JointTermIs, FinishedIs
<1>3. CASE Text(spec, "type") = "last_action"
    <2>1. LastActionOk(spec, n)
        BY <1>3, <1>1 DEF ObsTermOk
    <2>2. ObsTerm(spec, c, n) = Finished(spec, LastActionTerm(spec, n))
        BY <1>3, <1>1 DEF ObsTerm
    <2> QED
        BY <2>1, <2>2, LastActionTermIs, FinishedIs
<1>4. CASE Text(spec, "type") = "constant"
    <2>1. ConstantOk(spec)
        BY <1>4, <1>1 DEF ObsTermOk
    <2>2. ObsTerm(spec, c, n) = Finished(spec, ConstantTerm(spec))
        BY <1>4, <1>1 DEF ObsTerm
    <2> QED
        BY <2>1, <2>2, ConstantTermIs, FinishedIs
<1>5. CASE Text(spec, "type") \notin JointKinds \cup {"last_action", "constant"}
    <2>1. PathTermOk(spec)
        BY <1>5 DEF ObsTermOk
    <2>2. ObsTerm(spec, c, n) = Finished(spec, PathTerm(spec))
        BY <1>5 DEF ObsTerm
    <2> QED
        BY <2>1, <2>2, PathTermIs, FinishedIs
<1> QED
    BY <1>2, <1>3, <1>4, <1>5

----------------------------------------------------------------------------
(* The configuration, and the terms parsed from it.                        *)

LEMMA SpecsAre ==
    ASSUME NEW c \in Configurations, NEW name \in {"action_terms", "observation_terms"},
           StringsOk(c.parameters, name), NEW specs, specs = ValueOr(c.parameters, name, <<>>), specs # <<>>
    PROVE  Len(specs) \in Nat /\ DOMAIN specs = 1..Len(specs) /\ \A i \in 1..Len(specs) : IsSpec(specs[i])
<1>1. IsConfiguration(c)
    BY BuilderAssumption
<1>2. IsSet(c.parameters, name) /\ specs = c.parameters[name][2]
    BY DEF ValueOr
<1>3. name \in DOMAIN c.parameters /\ c.parameters[name][1] = "strings"
    BY <1>2 DEF IsSet, StringsOk, OfType
<1>4. IsParameter(c.parameters[name])
    BY <1>1, <1>3 DEF IsConfiguration
<1>5. Len(specs) \in Nat
    BY <1>2, <1>3, <1>4 DEF IsParameter
<1>6. DOMAIN specs = 1..Len(specs) /\ \A i \in DOMAIN specs : IsSpec(specs[i])
    BY <1>1, <1>2 DEF IsConfiguration
<1> QED
    BY <1>5, <1>6

LEMMA ActionsAre ==
    ASSUME NEW c \in Configurations, ActionTermsOk(c)
    PROVE  /\ ActionSize(c) \in Nat /\ DOMAIN ActionSpecs(c) = 1..ActionSize(c)
           /\ \A i \in 1..ActionSize(c) : IsSpec(ActionSpecs(c)[i])
BY SpecsAre DEF ActionTermsOk, ActionSpecs, ActionSize

LEMMA ObservationsAre ==
    ASSUME NEW c \in Configurations,
           StringsOk(c.parameters, "observation_terms"), ObservationSpecs(c) # <<>>
    PROVE  /\ Len(ObservationSpecs(c)) \in Nat /\ DOMAIN ObservationSpecs(c) = 1..Len(ObservationSpecs(c))
           /\ \A i \in 1..Len(ObservationSpecs(c)) : IsSpec(ObservationSpecs(c)[i])
BY SpecsAre DEF ObservationSpecs

Parsing == phase \notin Unparsed \cup {"refused"}

LEMMA TermsAre ==
    ASSUME TypesFit, ConfigRead, Parsing
    PROVE  \A i \in 1..Len(terms) : Shaped(terms[i])
<1>1. TAKE i \in 1..Len(terms)
<1>2. Len(terms) \in Nat /\ DOMAIN terms = 1..Len(terms)
    BY SeqIs DEF TypesFit
<1>3. /\ config \in Configurations /\ ActionTermsOk(config)
      /\ StringsOk(config.parameters, "observation_terms") /\ ObservationSpecs(config) # <<>>
      /\ TermsKept /\ Len(terms) <= Len(ObservationSpecs(config))
    BY DEF TypesFit, ConfigRead, Parsing
<1>4. IsSpec(SpecAt(i))
    <2>1. /\ Len(ObservationSpecs(config)) \in Nat
          /\ \A j \in 1..Len(ObservationSpecs(config)) : IsSpec(ObservationSpecs(config)[j])
        BY <1>3, ObservationsAre
    <2>2. i \in 1..Len(ObservationSpecs(config))
        BY <1>2, <1>3, <2>1
    <2> QED
        BY <2>1, <2>2 DEF SpecAt
<1>5. ObsTermOk(SpecAt(i), config, ActionSize(config))
    BY <1>2, <1>3 DEF TermsKept
<1>6. ActionSize(config) \in Nat
    BY <1>3, ActionsAre
<1>7. Shaped(Parsed(i))
    BY <1>4, <1>5, <1>6, ObsTermIs DEF Parsed
<1>8. DOMAIN terms[i] = TermFields /\ \A field \in TermFields \ {"index"} : terms[i][field] = Parsed(i)[field]
    BY <1>2, <1>3 DEF TermsKept
<1>9. /\ terms[i].dim = Parsed(i).dim /\ terms[i].paths = Parsed(i).paths /\ terms[i].take = Parsed(i).take
      /\ terms[i].kind = Parsed(i).kind /\ terms[i].type = Parsed(i).type
    BY <1>8 DEF TermFields, NewTerm
<1> QED
    BY <1>7, <1>8, <1>9 DEF Shaped

----------------------------------------------------------------------------
(* The types of the state.                                                 *)

LEMMA TypesStep == TypesFit /\ ConfigRead /\ Next => TypesFit'
<1> SUFFICES ASSUME TypesFit, ConfigRead, Next
             PROVE  TypesFit'
    OBVIOUS
<1>1. CASE LoadJoints \/ ParseActions \/ StartIndexing \/ CheckSizes \/ FinishPairing
    BY <1>1 DEF LoadJoints, ParseActions, StartIndexing, CheckSizes, FinishPairing, Refuse,
                TypesFit, Phases, Unbound, Unparsed, Ended
<1>2. CASE Refuse /\ UNCHANGED config
    BY <1>2 DEF Refuse, TypesFit, Phases, Ended
<1>3. CASE ParseTerm /\ ~Refuse
    <2> DEFINE term == ObsTerm(ObservationSpecs(config)[Len(terms) + 1], config, ActionSize(config))
    <2>1. /\ terms' = Append(terms, term) /\ term_slots' = Append(term_slots, <<>>)
          /\ UNCHANGED <<phase, config, slots, cursor>>
        BY <1>3 DEF ParseTerm
    <2> HIDE DEF term
    <2>2. IsSeq(terms') /\ Len(terms') = Len(terms) + 1
        BY <2>1, AppendIs DEF TypesFit
    <2>3. /\ IsSeq(term_slots') /\ Len(term_slots') = Len(terms) + 1
          /\ \A i \in 1..Len(terms) : term_slots'[i] = term_slots[i]
          /\ term_slots'[Len(terms) + 1] = <<>>
        BY <2>1, AppendIs DEF TypesFit
    <2>4. Len(terms) \in Nat /\ DOMAIN term_slots = 1..Len(terms) /\ DOMAIN term_slots' = 1..Len(terms) + 1
        BY <2>3, SeqIs DEF TypesFit
    <2>5. ASSUME NEW i \in DOMAIN term_slots'
          PROVE  IsSeq(term_slots'[i])
        <3>1. CASE i = Len(terms) + 1
            BY <2>3, <3>1, EmptyIs
        <3>2. CASE i # Len(terms) + 1
            <4>1. i \in 1..Len(terms)
                BY <2>4, <3>2
            <4> QED
                BY <2>3, <2>4, <4>1 DEF TypesFit
        <3> QED
            BY <3>1, <3>2
    <2> QED
        BY <2>1, <2>2, <2>3, <2>5 DEF TypesFit
<1>4. CASE AssignIndex /\ ~Refuse
    <2> DEFINE n == cursor.term
    <2>1. /\ n <= Len(terms) /\ terms' = [terms EXCEPT ![n].index = cursor.offset]
          /\ cursor' = [term |-> n + 1, offset |-> cursor.offset + terms[n].dim]
          /\ UNCHANGED <<phase, config, slots, term_slots>> /\ phase = "indexing"
        BY <1>4 DEF AssignIndex, OffsetAfter
    <2>2. Len(terms) \in Nat /\ n \in 1..Len(terms)
        BY <2>1, SeqIs DEF TypesFit
    <2>3. Parsing
        BY <2>1 DEF Parsing, Unparsed
    <2>4. terms[n].dim \in Nat
        BY <2>2, <2>3, TermsAre DEF Shaped
    <2>5. cursor.offset + terms[n].dim \in Nat /\ n + 1 \in Nat \ {0}
        BY <2>2, <2>4 DEF TypesFit
    <2> DEFINE e == [terms[n] EXCEPT !.index = cursor.offset]
    <2>6. terms' = [terms EXCEPT ![n] = e]
        BY <2>1
    <2> HIDE DEF e
    <2>7. IsSeq(terms') /\ Len(terms') = Len(terms)
        BY <2>2, <2>6, ExceptIs DEF TypesFit
    <2>8. DOMAIN cursor' = {"term", "offset"} /\ cursor'.term = n + 1 /\ cursor'.offset = cursor.offset + terms[n].dim
        BY <2>1
    <2> QED
        BY <2>1, <2>5, <2>7, <2>8 DEF TypesFit
<1>5. CASE LoadSettings /\ ~Refuse
    <2>1. phase' = "binding" /\ cursor' = Start /\ UNCHANGED <<config, terms, slots, term_slots>>
        BY <1>5 DEF LoadSettings
    <2>2. DOMAIN Start = {"term", "offset"} /\ Start.term \in Nat \ {0} /\ Start.offset \in Nat
        BY DEF Start
    <2> QED
        BY <2>1, <2>2 DEF TypesFit, Phases
<1>6. CASE BindTerm /\ ~Refuse
    <2> DEFINE n == cursor.term
               s == Append(term_slots[n], Acquired(PathToBind))
    <2>1. /\ n <= Len(terms) /\ slots' = SlotsAfter(PathToBind, Required)
          /\ term_slots' = [term_slots EXCEPT ![n] = s]
          /\ UNCHANGED <<phase, config, terms, cursor>>
        BY <1>6 DEF BindTerm
    <2>2. Len(terms) \in Nat /\ n \in 1..Len(terms) /\ DOMAIN term_slots = 1..Len(terms)
        BY <2>1, SeqIs DEF TypesFit
    <2>3. IsSeq(s)
        BY <2>2, AppendIs DEF TypesFit
    <2>4. IsSeq(slots')
        BY <2>1, AppendIs DEF SlotsAfter, TypesFit
    <2> HIDE DEF s
    <2>5. /\ IsSeq(term_slots') /\ Len(term_slots') = Len(term_slots)
          /\ \A i \in DOMAIN term_slots : term_slots'[i] = IF i = n THEN s ELSE term_slots[i]
        BY <2>1, <2>2, ExceptIs DEF TypesFit
    <2>6. DOMAIN term_slots' = DOMAIN term_slots
        BY <2>2, <2>5, SeqIs DEF TypesFit
    <2>7. \A i \in DOMAIN term_slots' : IsSeq(term_slots'[i])
        BY <2>3, <2>5, <2>6 DEF TypesFit
    <2> QED
        BY <2>1, <2>4, <2>5, <2>7 DEF TypesFit
<1>7. CASE NextTerm \/ StartControl
    BY <1>7 DEF NextTerm, StartControl, TypesFit, Start, Phases
<1>8. CASE BindControl
    <2>1. IsSeq(slots')
        <3>1. \A path, required : IsSeq(SlotsAfter(path, required))
            BY AppendIs DEF SlotsAfter, TypesFit
        <3>2. slots' = slots \/ \E path, required : slots' = SlotsAfter(path, required)
            BY <1>8 DEF BindControl
        <3> QED
            BY <3>1, <3>2 DEF TypesFit
    <2>2. cursor' = [cursor EXCEPT !.term = @ + 1] /\ UNCHANGED <<config, terms, term_slots>>
        BY <1>8 DEF BindControl
    <2>3. phase' \in Phases
        <3>1. phase' \in {phase, "refused"}
            BY <1>8 DEF BindControl
        <3> QED
            BY <3>1 DEF TypesFit, Phases, Ended
    <2>4. DOMAIN cursor' = {"term", "offset"} /\ cursor'.term \in Nat \ {0} /\ cursor'.offset \in Nat
        BY <2>2 DEF TypesFit
    <2> QED
        BY <2>1, <2>2, <2>3, <2>4 DEF TypesFit
<1>9. CASE Build
    BY <1>9 DEF Build, TypesFit, Phases, Ended
<1>10. LoadJoints \/ ParseActions \/ ParseTerm \/ StartIndexing \/ AssignIndex \/ CheckSizes \/ LoadSettings
       \/ BindTerm \/ NextTerm \/ StartControl \/ BindControl \/ FinishPairing \/ Build
    BY DEF Next
<1>11. ParseTerm \/ AssignIndex \/ LoadSettings \/ BindTerm => UNCHANGED config
    BY DEF ParseTerm, AssignIndex, LoadSettings, BindTerm
<1> QED
    BY <1>1, <1>2, <1>3, <1>4, <1>5, <1>6, <1>7, <1>8, <1>9, <1>10, <1>11

----------------------------------------------------------------------------
(* The slots.                                                               *)

\* The slots grow by one for a path they do not have, or stay as they are.
LEMMA AcquiredIs ==
    ASSUME TypesFit, SlotsFit, NEW path, NEW required,
           NEW new, new = SlotsAfter(path, required), NEW slot, slot = Acquired(path)
    PROVE  \/ new = slots /\ slot = 0
           \/ new = slots /\ slot \in 1..Len(slots) /\ slots[slot].path = path
           \/ /\ slot = Len(slots) + 1 /\ IsSeq(new) /\ Len(new) = slot
              /\ \A i \in 1..Len(slots) : new[i] = slots[i] /\ slots[i].path # path
              /\ new[slot] = [path |-> path, binding |-> output_map[path], required |-> required]
              /\ path \in DOMAIN output_map /\ Reusable(path) = {}
<1>1. Len(slots) \in Nat /\ DOMAIN slots = 1..Len(slots)
    BY SeqIs DEF TypesFit
<1>2. CASE path \notin DOMAIN output_map
    BY <1>1, <1>2 DEF Acquired, SlotsAfter
<1>3. CASE path \in DOMAIN output_map /\ Reusable(path) # {}
    <2>1. Reusable(path) \in SUBSET (1..Len(slots))
        BY <1>1 DEF Reusable, SlotsOf
    <2>2. slot = Min(Reusable(path)) /\ Min(Reusable(path)) \in Reusable(path)
        <3>1. Reusable(path) \in SUBSET Nat
            BY <2>1
        <3>2. Min(Reusable(path)) \in Reusable(path)
            BY <1>3, <3>1, MinIs
        <3> QED
            BY <1>3, <3>2 DEF Acquired
    <2>3. slot \in 1..Len(slots) /\ slots[slot].path = path
        BY <2>1, <2>2 DEF Reusable, SlotsOf
    <2> QED
        BY <1>1, <2>3 DEF SlotsAfter
<1>4. CASE path \in DOMAIN output_map /\ Reusable(path) = {}
    <2> DEFINE e == [path |-> path, binding |-> output_map[path], required |-> required]
    <2>1. slot = Len(slots) + 1
        BY <1>4 DEF Acquired
    <2>2. new = Append(slots, e)
        BY <1>1, <2>1 DEF SlotsAfter
    <2> HIDE DEF e
    <2>3. /\ IsSeq(new) /\ Len(new) = slot /\ \A i \in 1..Len(slots) : new[i] = slots[i]
          /\ new[slot] = e
        BY <2>1, <2>2, AppendIs DEF TypesFit
    <2>4. ASSUME NEW i \in 1..Len(slots), slots[i].path = path
          PROVE  FALSE
        <3>1. slots[i].binding = output_map[path]
            BY <1>1, <2>4 DEF SlotsFit
        <3>2. i \in Reusable(path)
            BY <1>1, <2>4, <3>1 DEF Reusable, SlotsOf
        <3> QED
            BY <1>4, <3>2
    <2> QED
        BY <1>4, <2>1, <2>3, <2>4 DEF e
<1> QED
    BY <1>2, <1>3, <1>4

\* One path, one slot, also after acquire_slot().
LEMMA SlotsAfterFit ==
    ASSUME TypesFit, SlotsFit, NEW path, NEW required, NEW new, new = SlotsAfter(path, required)
    PROVE  /\ \A i, j \in DOMAIN new : new[i].path = new[j].path => i = j
           /\ \A i \in DOMAIN new :
                new[i].path \in DOMAIN output_map /\ new[i].binding = output_map[new[i].path]
<1>1. CASE new = slots
    BY <1>1 DEF SlotsFit
<1>2. CASE new # slots
    <2>1. Len(slots) \in Nat /\ DOMAIN slots = 1..Len(slots)
        BY SeqIs DEF TypesFit
    <2> DEFINE n == Len(slots) + 1
    <2>2. /\ IsSeq(new) /\ Len(new) = n
          /\ \A i \in 1..Len(slots) : new[i] = slots[i] /\ slots[i].path # path
          /\ new[n].path = path /\ new[n].binding = output_map[path]
          /\ path \in DOMAIN output_map
        <3>1. PICK slot : slot = Acquired(path)
            OBVIOUS
        <3>2. /\ slot = n /\ IsSeq(new) /\ Len(new) = slot
              /\ \A i \in 1..Len(slots) : new[i] = slots[i] /\ slots[i].path # path
              /\ new[slot] = [path |-> path, binding |-> output_map[path], required |-> required]
              /\ path \in DOMAIN output_map
            BY <1>2, <3>1, AcquiredIs
        <3> QED
            BY <3>2
    <2>3. DOMAIN new = 1..n
        BY <2>2, SeqIs
    <2>4. \A i \in DOMAIN new : i = n \/ i \in DOMAIN slots
        BY <2>1, <2>3
    <2> HIDE DEF n
    <2>5. \A i \in DOMAIN slots : new[i] = slots[i] /\ slots[i].path # path
        BY <2>1, <2>2
    <2>6. ASSUME NEW i \in DOMAIN new, NEW j \in DOMAIN new, new[i].path = new[j].path
          PROVE  i = j
        BY <2>2, <2>4, <2>5, <2>6 DEF SlotsFit
    <2>7. ASSUME NEW i \in DOMAIN new
          PROVE  new[i].path \in DOMAIN output_map /\ new[i].binding = output_map[new[i].path]
        BY <2>2, <2>4, <2>5 DEF SlotsFit
    <2> QED
        BY <2>6, <2>7
<1> QED
    BY <1>1, <1>2

LEMMA SlotsStep == TypesFit /\ SlotsFit /\ Next => SlotsFit'
<1> SUFFICES ASSUME TypesFit, SlotsFit, Next
             PROVE  SlotsFit'
    OBVIOUS
<1> USE DEF Unbound, Unparsed
<1>1. CASE Refuse
    BY <1>1 DEF Refuse, SlotsFit
<1>2. CASE LoadJoints \/ ParseActions \/ StartIndexing \/ AssignIndex \/ CheckSizes
           \/ NextTerm \/ StartControl \/ FinishPairing \/ Build
    BY <1>1, <1>2 DEF LoadJoints, ParseActions, StartIndexing, AssignIndex, CheckSizes, NextTerm,
                StartControl, FinishPairing, Build, SlotsFit
<1>3. CASE ParseTerm /\ ~Refuse
    <2>1. /\ term_slots' = Append(term_slots, <<>>) /\ UNCHANGED <<phase, output_map, slots>>
          /\ phase = "terms"
        BY <1>3 DEF ParseTerm
    <2>2. \A i \in DOMAIN term_slots : term_slots[i] = <<>>
        BY <2>1 DEF SlotsFit
    <2>3. Len(term_slots) \in Nat /\ DOMAIN term_slots = 1..Len(term_slots)
          /\ DOMAIN term_slots' = 1..Len(term_slots) + 1
          /\ (\A i \in 1..Len(term_slots) : term_slots'[i] = term_slots[i])
          /\ term_slots'[Len(term_slots) + 1] = <<>>
        BY <2>1, AppendIs, SeqIs DEF TypesFit
    <2>4. ASSUME NEW i \in DOMAIN term_slots'
          PROVE  term_slots'[i] = <<>>
        BY <2>2, <2>3
    <2> QED
        BY <2>1, <2>4 DEF SlotsFit
<1>4. CASE LoadSettings /\ ~Refuse
    <2>1. phase' = "binding" /\ slots = <<>> /\ slots' = slots
        BY <1>4 DEF LoadSettings, SlotsFit
    <2>2. DOMAIN slots' = {}
        BY <2>1
    <2> QED
        BY <2>1, <2>2 DEF SlotsFit
<1>5. CASE BindTerm /\ ~Refuse
    <2>1. /\ slots' = SlotsAfter(PathToBind, Required) /\ UNCHANGED <<phase, output_map>>
          /\ phase = "binding"
        BY <1>5 DEF BindTerm
    <2> QED
        BY <2>1, SlotsAfterFit DEF SlotsFit
<1>6. CASE BindControl
    <2>1. /\ UNCHANGED output_map /\ phase' \in {"control", "refused"}
          /\ slots' = slots \/ \E path, required : slots' = SlotsAfter(path, required)
        BY <1>6 DEF BindControl
    <2> QED
        BY <2>1, SlotsAfterFit DEF SlotsFit
<1> QED
    BY <1>1, <1>2, <1>3, <1>4, <1>5, <1>6 DEF Next

----------------------------------------------------------------------------
(* The configuration that has been read, and the offsets of the terms.     *)

\* index= is the only field that is written after a term has been parsed.
LEMMA IndexedIs ==
    ASSUME TypesFit, ConfigRead, AssignIndex, ~Refuse
    PROVE  /\ cursor.term \in 1..Len(terms) /\ DOMAIN terms = 1..Len(terms)
           /\ IsSeq(terms') /\ Len(terms') = Len(terms) /\ DOMAIN terms' = DOMAIN terms
           /\ \A i \in DOMAIN terms :
                /\ DOMAIN terms'[i] = TermFields
                /\ \A field \in TermFields \ {"index"} : terms'[i][field] = terms[i][field]
                /\ terms'[i].index = IF i = cursor.term THEN cursor.offset ELSE terms[i].index
           /\ cursor' = [term |-> cursor.term + 1, offset |-> cursor.offset + terms[cursor.term].dim]
           /\ phase = "indexing" /\ UNCHANGED <<phase, config, output_map, slots, term_slots, frame>>
<1> DEFINE n == cursor.term
           e == [terms[n] EXCEPT !.index = cursor.offset]
<1>1. /\ n <= Len(terms) /\ terms' = [terms EXCEPT ![n] = e]
      /\ cursor' = [term |-> n + 1, offset |-> cursor.offset + terms[n].dim]
      /\ UNCHANGED <<phase, config, output_map, slots, term_slots, frame>> /\ phase = "indexing"
    BY DEF AssignIndex, OffsetAfter
<1>2. Len(terms) \in Nat /\ n \in 1..Len(terms) /\ DOMAIN terms = 1..Len(terms)
    BY <1>1, SeqIs DEF TypesFit
<1>3. \A i \in DOMAIN terms : DOMAIN terms[i] = TermFields
    BY <1>1 DEF ConfigRead, TermsKept, Unparsed
<1>4. /\ DOMAIN e = TermFields /\ e.index = cursor.offset
      /\ \A field \in TermFields \ {"index"} : e[field] = terms[n][field]
    <2>1. "index" \in TermFields
        BY DEF TermFields, NewTerm
    <2> QED
        BY <1>2, <1>3, <2>1
<1> HIDE DEF e
<1>5. /\ IsSeq(terms') /\ Len(terms') = Len(terms)
      /\ \A i \in DOMAIN terms : terms'[i] = IF i = n THEN e ELSE terms[i]
    BY <1>1, <1>2, ExceptIs DEF TypesFit
<1>6. DOMAIN terms' = DOMAIN terms
    BY <1>2, <1>5, SeqIs
<1>7. ASSUME NEW i \in DOMAIN terms
      PROVE  /\ DOMAIN terms'[i] = TermFields
             /\ \A field \in TermFields \ {"index"} : terms'[i][field] = terms[i][field]
             /\ terms'[i].index = IF i = n THEN cursor.offset ELSE terms[i].index
    BY <1>3, <1>4, <1>5
<1> QED
    BY <1>1, <1>2, <1>5, <1>6, <1>7

LEMMA ConfigStep == TypesFit /\ ConfigRead /\ Next => ConfigRead'
<1> SUFFICES ASSUME TypesFit, ConfigRead, Next
             PROVE  ConfigRead'
    OBVIOUS
<1> USE DEF Unparsed
<1>1. CASE Refuse
    <2>1. phase' = "refused" /\ UNCHANGED terms
        BY <1>1 DEF Refuse
    <2> QED
        BY <2>1 DEF ConfigRead
<1>2. CASE LoadJoints /\ ~Refuse
    BY <1>2 DEF LoadJoints, ConfigRead
<1>3. CASE ParseActions /\ ~Refuse
    <2>1. /\ ActionTermsOk(config)
          /\ StringsOk(config.parameters, "observation_terms") /\ ObservationSpecs(config) # <<>>
          /\ phase = "actions" /\ phase' = "terms" /\ UNCHANGED <<config, terms, cursor>>
        BY <1>3 DEF ParseActions
    <2>2. terms = <<>> /\ cursor = Start
        BY <2>1 DEF ConfigRead
    <2>3. Len(terms) = 0 /\ DOMAIN terms = {} /\ Len(ObservationSpecs(config)) \in Nat
        BY <2>1, <2>2, ObservationsAre DEF TypesFit
    <2> QED
        BY <2>1, <2>2, <2>3 DEF ConfigRead, TermsKept
<1>4. CASE ParseTerm /\ ~Refuse
    <2> DEFINE n == Len(terms) + 1
               term == ObsTerm(SpecAt(n), config, ActionSize(config))
    <2>1. /\ Len(terms) < Len(ObservationSpecs(config)) /\ ObsTermOk(SpecAt(n), config, ActionSize(config))
          /\ terms' = Append(terms, term) /\ UNCHANGED <<phase, config, cursor>> /\ phase = "terms"
        BY <1>4 DEF ParseTerm, SpecAt
    <2>2. /\ ActionTermsOk(config) /\ StringsOk(config.parameters, "observation_terms")
          /\ ObservationSpecs(config) # <<>> /\ TermsKept
        BY <2>1 DEF ConfigRead
    <2>3. Len(terms) \in Nat /\ DOMAIN terms = 1..Len(terms) /\ Len(ObservationSpecs(config)) \in Nat
        BY <2>2, ObservationsAre, SeqIs DEF TypesFit
    <2>4. DOMAIN term = TermFields
        <3>1. IsSpec(SpecAt(n)) /\ ActionSize(config) \in Nat
            BY <2>1, <2>2, <2>3, ObservationsAre, ActionsAre DEF TypesFit, SpecAt
        <3> QED
            BY <2>1, <3>1, ObsTermIs DEF Shaped
    <2>5. term = Parsed(n)
        BY DEF Parsed
    <2> HIDE DEF term
    <2>6. /\ DOMAIN terms' = 1..n /\ Len(terms') = n
          /\ \A i \in 1..Len(terms) : terms'[i] = terms[i]
          /\ terms'[n] = term
        BY <2>1, AppendIs, SeqIs DEF TypesFit
    <2>7. ASSUME NEW i \in DOMAIN terms'
          PROVE  /\ ObsTermOk(SpecAt(i), config, ActionSize(config))
                 /\ DOMAIN terms'[i] = TermFields
                 /\ \A field \in TermFields \ {"index"} : terms'[i][field] = Parsed(i)[field]
        <3>1. CASE i = n
            BY <2>1, <2>4, <2>5, <2>6, <3>1
        <3>2. CASE i # n
            <4>1. i \in DOMAIN terms /\ terms'[i] = terms[i]
                BY <2>3, <2>6, <3>2
            <4> QED
                BY <2>2, <4>1 DEF TermsKept
        <3> QED
            BY <3>1, <3>2
    <2>8. TermsKept'
        BY <2>1, <2>7 DEF TermsKept, SpecAt, Parsed
    <2> QED
        BY <2>1, <2>2, <2>3, <2>6, <2>8 DEF ConfigRead
<1>5. CASE StartIndexing
    <2>1. /\ phase = "terms" /\ phase' = "indexing" /\ UNCHANGED <<config, terms, cursor>>
          /\ Len(terms) = Len(ObservationSpecs(config))
        BY <1>5 DEF StartIndexing
    <2> QED
        BY <2>1 DEF ConfigRead, TermsKept, SpecAt, Parsed
<1>6. CASE AssignIndex /\ ~Refuse
    <2>1. TermsKept /\ phase = "indexing"
        BY <1>6, IndexedIs DEF ConfigRead
    <2>2. TermsKept'
        BY <1>6, <2>1, IndexedIs DEF TermsKept, SpecAt, Parsed
    <2> QED
        BY <1>6, <2>2, IndexedIs DEF ConfigRead
<1>7. CASE ~Refuse /\ (CheckSizes \/ LoadSettings \/ BindTerm \/ NextTerm \/ StartControl
                       \/ BindControl \/ FinishPairing \/ Build)
    <2>1. /\ phase \notin {"joints", "actions", "terms", "refused"} /\ phase' \notin {"joints", "actions", "terms"}
          /\ UNCHANGED <<config, terms>>
        BY <1>7 DEF CheckSizes, LoadSettings, BindTerm, NextTerm, StartControl, BindControl, FinishPairing, Build
    <2> QED
        BY <2>1 DEF ConfigRead, TermsKept, SpecAt, Parsed
<1> QED
    BY <1>1, <1>2, <1>3, <1>4, <1>5, <1>6, <1>7 DEF Next

LEMMA OffsetsStep == TypesFit /\ ConfigRead /\ OffsetsAssigned /\ Next => OffsetsAssigned'
<1> SUFFICES ASSUME TypesFit, ConfigRead, OffsetsAssigned, Next
             PROVE  OffsetsAssigned'
    OBVIOUS
<1>1. Len(terms) \in Nat /\ DOMAIN terms = 1..Len(terms)
    BY SeqIs DEF TypesFit
<1>2. CASE phase' \in (Unbound \ {"indexing", "settings"}) \cup {"refused"}
    BY <1>2 DEF OffsetsAssigned, Unbound, Unparsed
<1>3. CASE StartIndexing
    <2>1. phase' = "indexing" /\ terms' = terms /\ cursor' = [term |-> 1, offset |-> 0]
        BY <1>3 DEF StartIndexing, ConfigRead, Start, Unparsed
    <2> QED
        BY <1>1, <2>1 DEF OffsetsAssigned, InRow
<1>4. CASE AssignIndex /\ ~Refuse
    <2> DEFINE n == cursor.term
    <2>1. /\ n \in 1..Len(terms) /\ Len(terms') = Len(terms) /\ phase = "indexing" /\ phase' = phase
          /\ cursor'.term = n + 1 /\ cursor'.offset = cursor.offset + terms[n].dim
          /\ \A i \in 1..Len(terms) : terms'[i].index = IF i = n THEN cursor.offset ELSE terms[i].index
        BY <1>4, IndexedIs
    <2>2. \A i \in 1..Len(terms) : terms'[i].dim = terms[i].dim
        BY <1>1, <1>4, IndexedIs DEF TermFields, NewTerm
    <2>3. InRow(n - 1) /\ cursor.offset = IF n = 1 THEN 0 ELSE EndOf(n - 1)
        BY <2>1 DEF OffsetsAssigned
    <2>4. ASSUME NEW i \in 1..n
          PROVE  terms'[i].index = IF i = 1 THEN 0 ELSE terms'[i - 1].index + terms'[i - 1].dim
        <3>1. i \in 1..Len(terms) /\ (i # 1 => i - 1 \in 1..Len(terms) /\ i - 1 # n)
            BY <1>1, <2>1
        <3>2. i # 1 => terms'[i - 1].index = terms[i - 1].index /\ terms'[i - 1].dim = terms[i - 1].dim
            BY <2>1, <2>2, <3>1
        <3>3. CASE i = n
            BY <2>1, <2>3, <3>1, <3>2, <3>3 DEF EndOf
        <3>4. CASE i # n
            <4>1. i \in 1..(n - 1)
                BY <1>1, <2>1, <3>4
            <4> QED
                BY <2>1, <2>3, <3>1, <3>2, <3>4, <4>1 DEF InRow, EndOf
        <3> QED
            BY <3>3, <3>4
    <2>5. cursor'.offset = terms'[n].index + terms'[n].dim
        BY <2>1, <2>2
    <2>6. n + 1 <= Len(terms) + 1 /\ (n + 1) - 1 = n /\ n + 1 # 1
        BY <1>1, <2>1
    <2> HIDE DEF n
    <2> QED
        BY <2>1, <2>4, <2>5, <2>6 DEF OffsetsAssigned, InRow, EndOf
<1>5. CASE CheckSizes /\ ~Refuse
    <2>1. phase = "indexing" /\ cursor.term > Len(terms) /\ phase' = "settings" /\ terms' = terms
        BY <1>5 DEF CheckSizes
    <2>2. cursor.term - 1 = Len(terms) /\ InRow(cursor.term - 1)
        BY <1>1, <2>1 DEF OffsetsAssigned, TypesFit
    <2> QED
        BY <2>1, <2>2 DEF OffsetsAssigned, InRow, EndOf
<1>6. CASE phase \in {"settings", "binding", "control", "running"} /\ UNCHANGED terms /\ phase' # "indexing"
    BY <1>6 DEF OffsetsAssigned, InRow, EndOf
<1>7. ~Refuse /\ (LoadSettings \/ BindTerm \/ NextTerm \/ StartControl \/ BindControl \/ FinishPairing \/ Build)
        => phase \in {"settings", "binding", "control", "running"} /\ UNCHANGED terms /\ phase' # "indexing"
    BY DEF LoadSettings, BindTerm, NextTerm, StartControl, BindControl, FinishPairing, Build
<1>8. Refuse \/ LoadJoints \/ ParseActions \/ ParseTerm
        => phase' \in (Unbound \ {"indexing", "settings"}) \cup {"refused"}
    BY DEF LoadJoints, ParseActions, ParseTerm, Refuse, Unbound, Unparsed
<1> QED
    BY <1>2, <1>3, <1>4, <1>5, <1>6, <1>7, <1>8 DEF Next

----------------------------------------------------------------------------
(* The settings.                                                            *)

LEMMA SizesStay == terms' = terms /\ config' = config => FrameSize' = FrameSize /\ ObsSize' = ObsSize
<1> SUFFICES ASSUME terms' = terms, config' = config
             PROVE  FrameSize' = FrameSize /\ ObsSize' = ObsSize
    OBVIOUS
<1>1. FrameSize' = DimSum(terms') /\ FrameSize = DimSum(terms)
    BY DEF FrameSize, FoldLeft, MapThenFoldSet, DimSum
<1>2. FrameSize' = FrameSize
    BY <1>1
<1> QED
    BY <1>2 DEF ObsSize

LEMMA SettingsStep == TypesFit /\ ConfigRead /\ SettingsRead /\ Next => SettingsRead'
<1> SUFFICES ASSUME TypesFit, ConfigRead, SettingsRead, Next
             PROVE  SettingsRead'
    OBVIOUS
<1>1. CASE phase' \in Unbound \ {"settings"} \/ phase' = "refused"
    BY <1>1 DEF SettingsRead, Unbound, Unparsed
<1>2. CASE CheckSizes /\ ~Refuse
    <2>1. /\ HistoryLengthOk(config) /\ DeclaredOk(config, "rl_obs_size", ObsSize)
          /\ phase' = "settings" /\ UNCHANGED <<config, terms>>
        BY <1>2 DEF CheckSizes
    <2> QED
        BY <2>1, SizesStay DEF SettingsRead
<1>3. CASE LoadSettings /\ ~Refuse
    <2>1. /\ SettingsOk(config) /\ FrameSize # 0
          /\ phase = "settings" /\ phase' = "binding" /\ UNCHANGED <<config, terms>>
        BY <1>3 DEF LoadSettings
    <2> QED
        BY <2>1, SizesStay DEF SettingsRead
<1>4. CASE phase \in {"binding", "control", "running"} /\ UNCHANGED <<config, terms>>
    BY <1>4, SizesStay DEF SettingsRead
<1>5. ~Refuse /\ (BindTerm \/ NextTerm \/ StartControl \/ BindControl \/ FinishPairing \/ Build)
        => phase \in {"binding", "control", "running"} /\ UNCHANGED <<config, terms>>
    BY DEF BindTerm, NextTerm, StartControl, BindControl, FinishPairing, Build
<1>6. Refuse \/ LoadJoints \/ ParseActions \/ ParseTerm \/ StartIndexing
        => phase' \in Unbound \ {"settings"} \/ phase' = "refused"
    BY DEF LoadJoints, ParseActions, ParseTerm, StartIndexing, Refuse, Unbound, Unparsed
<1>7. AssignIndex /\ ~Refuse => phase' = "indexing"
    BY IndexedIs
<1> QED
    BY <1>1, <1>2, <1>3, <1>4, <1>5, <1>6, <1>7 DEF Next, Unbound

----------------------------------------------------------------------------
(* What the terms have been bound to.                                       *)

\* The bindings a term accepts suit what it takes.
LEMMA CandidatesAre ==
    ASSUME NEW term, Shaped(term)
    PROVE  Candidates(term) \subseteq Suited(term.take)
BY DEF Shaped, Candidates, Suited, ScalarTypes

LEMMA BoundStep == TypesFit /\ ConfigRead /\ SlotsFit /\ TermsBound /\ Next => TermsBound'
<1> SUFFICES ASSUME TypesFit, ConfigRead, SlotsFit, TermsBound, Next
             PROVE  TermsBound'
    OBVIOUS
<1>1. /\ Len(terms) \in Nat /\ DOMAIN terms = 1..Len(terms) /\ DOMAIN term_slots = 1..Len(terms)
      /\ Len(slots) \in Nat /\ DOMAIN slots = 1..Len(slots)
    BY SeqIs DEF TypesFit
<1>2. CASE UNCHANGED <<terms, slots, term_slots>> /\ (phase' = "binding" => phase = "binding")
    BY <1>2 DEF TermsBound, BoundByTerm
<1>3. CASE LoadSettings /\ ~Refuse
    <2>1. UNCHANGED <<terms, slots, term_slots>> /\ slots = <<>>
        BY <1>3 DEF LoadSettings, SlotsFit, Unbound
    <2>2. DOMAIN slots' = {}
        BY <2>1
    <2> QED
        BY <2>1, <2>2 DEF TermsBound, BoundByTerm
<1>4. CASE ParseTerm /\ ~Refuse
    <2>1. /\ Len(terms') = Len(terms) + 1 /\ DOMAIN terms' = 1..Len(terms) + 1
          /\ phase' = phase /\ phase = "terms"
        BY <1>4, AppendIs, SeqIs DEF ParseTerm, TypesFit
    <2>2. SlotsFit'
        BY SlotsStep
    <2>3. TypesFit'
        BY TypesStep
    <2>4. \A i \in DOMAIN terms' : term_slots'[i] = <<>>
        BY <2>1, <2>2, <2>3, SeqIs DEF SlotsFit, TypesFit, Unbound
    <2> QED
        BY <2>1, <2>4 DEF TermsBound
<1>5. CASE AssignIndex /\ ~Refuse
    <2>1. phase' = "indexing" /\ DOMAIN terms' = DOMAIN terms /\ UNCHANGED term_slots /\ phase = "indexing"
        BY <1>5, IndexedIs
    <2>2. \A i \in DOMAIN terms : term_slots[i] = <<>>
        BY <1>1, <2>1 DEF SlotsFit, Unbound
    <2> QED
        BY <2>1, <2>2 DEF TermsBound
<1>6. CASE BindTerm /\ ~Refuse
    <2> DEFINE n == cursor.term
               slot == Acquired(PathToBind)
               k == Len(term_slots[n]) + 1
    <2>1. /\ phase = "binding" /\ n <= Len(terms) /\ Len(term_slots[n]) < Len(Term.paths)
          /\ ~Throws(PathToBind, Candidates(Term), Required)
          /\ slots' = SlotsAfter(PathToBind, Required)
          /\ term_slots' = [term_slots EXCEPT ![n] = Append(term_slots[n], slot)]
          /\ UNCHANGED <<phase, config, terms, output_map>>
        BY <1>6 DEF BindTerm
    <2>2. n \in 1..Len(terms) /\ IsSeq(term_slots[n]) /\ Len(term_slots[n]) \in Nat
        BY <1>1, <2>1, SeqIs DEF TypesFit
    <2>3. Term = terms[n] /\ PathToBind = terms[n].paths[k] /\ k \in DOMAIN terms[n].paths
        <3>1. Parsing
            BY <2>1 DEF Parsing, Unparsed
        <3>2. IsSeq(terms[n].paths)
            BY <2>2, <3>1, TermsAre DEF Shaped
        <3> QED
            BY <2>1, <2>2, <3>2, SeqIs DEF Term, PathToBind
    <2> DEFINE new == Append(term_slots[n], slot)
    <2>4. \A i \in DOMAIN term_slots : term_slots'[i] = IF i = n THEN new ELSE term_slots[i]
        BY <1>1, <2>1
    <2>5. /\ DOMAIN new = 1..k /\ (\A j \in 1..Len(term_slots[n]) : new[j] = term_slots[n][j])
          /\ new[k] = slot /\ DOMAIN term_slots[n] = 1..Len(term_slots[n])
        <3>1. IsSeq(new) /\ Len(new) = Len(term_slots[n]) + 1
              /\ (\A j \in 1..Len(term_slots[n]) : new[j] = term_slots[n][j]) /\ new[Len(term_slots[n]) + 1] = slot
            <4> HIDE DEF slot
            <4> QED
                BY <2>2, AppendIs
        <3> QED
            BY <2>2, <3>1, SeqIs
    <2>6. \/ slots' = slots /\ slot = 0
          \/ slots' = slots /\ slot \in 1..Len(slots) /\ slots[slot].path = PathToBind
          \/ /\ slot = Len(slots) + 1 /\ IsSeq(slots') /\ Len(slots') = slot
             /\ \A i \in 1..Len(slots) : slots'[i] = slots[i] /\ slots[i].path # PathToBind
             /\ slots'[slot].path = PathToBind /\ slots'[slot].binding = output_map[PathToBind]
             /\ PathToBind \in DOMAIN output_map /\ Reusable(PathToBind) = {}
        <3> HIDE DEF slot
        <3>1. slot = Acquired(PathToBind)
            BY DEF slot
        <3>2. \/ slots' = slots /\ slot = 0
              \/ slots' = slots /\ slot \in 1..Len(slots) /\ slots[slot].path = PathToBind
              \/ /\ slot = Len(slots) + 1 /\ IsSeq(slots') /\ Len(slots') = slot
                 /\ \A i \in 1..Len(slots) : slots'[i] = slots[i] /\ slots[i].path # PathToBind
                 /\ slots'[slot] = [path |-> PathToBind, binding |-> output_map[PathToBind], required |-> Required]
                 /\ PathToBind \in DOMAIN output_map /\ Reusable(PathToBind) = {}
            BY <2>1, <3>1, AcquiredIs
        <3> QED
            BY <3>2
    <2> HIDE DEF new, slot
    <2>7. DOMAIN slots \subseteq DOMAIN slots' /\ \A i \in DOMAIN slots : slots'[i] = slots[i]
        BY <1>1, <2>6, SeqIs
    <2>8. PathToBind \in ToSet(terms[n].paths)
        BY <2>3 DEF ToSet
    <2>9. ASSUME NEW i \in DOMAIN slots', i \notin DOMAIN slots
          PROVE  /\ i = slot /\ slots'[i].path = PathToBind
                 /\ slots'[i].binding \in Candidates(terms[n])
        <3>1. slot = Len(slots) + 1 /\ i = slot /\ slots'[slot].path = PathToBind
              /\ slots'[slot].binding = output_map[PathToBind]
              /\ PathToBind \in DOMAIN output_map /\ Reusable(PathToBind) = {}
            BY <1>1, <2>6, <2>9, SeqIs
        <3>2. output_map[PathToBind] \in Candidates(terms[n])
            BY <2>1, <2>3, <3>1 DEF Throws, MayBind
        <3> QED
            BY <3>1, <3>2
    <2>10. \A i \in DOMAIN slots : BoundByTerm(i)
        BY <2>1 DEF TermsBound
    <2>11. ASSUME NEW i \in DOMAIN slots'
           PROVE  \E t \in DOMAIN terms :
                    slots'[i].path \in ToSet(terms[t].paths) /\ slots'[i].binding \in Candidates(terms[t])
        <3>1. CASE i \in DOMAIN slots
            BY <2>7, <2>10, <3>1 DEF BoundByTerm
        <3>2. CASE i \notin DOMAIN slots
            BY <1>1, <2>2, <2>8, <2>9, <3>2
        <3> QED
            BY <3>1, <3>2
    <2>12. ASSUME NEW i \in DOMAIN terms, NEW j \in DOMAIN term_slots'[i], term_slots'[i][j] # 0
           PROVE  /\ term_slots'[i][j] \in DOMAIN slots'
                  /\ slots'[term_slots'[i][j]].path = terms[i].paths[j] /\ j \in DOMAIN terms[i].paths
        <3>1. CASE i = n /\ j = k
            <4>1. term_slots'[i][j] = slot /\ slot # 0
                BY <1>1, <2>4, <2>5, <2>12, <3>1
            <4>2. slot \in DOMAIN slots' /\ slots'[slot].path = PathToBind
                BY <1>1, <2>6, <4>1, SeqIs
            <4> QED
                BY <2>3, <3>1, <4>1, <4>2
        <3>2. CASE i # n \/ j # k
            <4>1. j \in DOMAIN term_slots[i] /\ term_slots'[i][j] = term_slots[i][j]
                BY <1>1, <2>2, <2>4, <2>5, <3>2
            <4>2. /\ term_slots[i][j] \in DOMAIN slots
                  /\ slots[term_slots[i][j]].path = terms[i].paths[j] /\ j \in DOMAIN terms[i].paths
                BY <2>12, <4>1 DEF TermsBound
            <4> QED
                BY <2>7, <4>1, <4>2
        <3> QED
            BY <3>1, <3>2
    <2> HIDE DEF n, k
    <2> QED
        BY <2>1, <2>11, <2>12 DEF TermsBound, BoundByTerm
<1>7. CASE BindControl
    <2>1. /\ phase = "control" /\ phase' # "binding" /\ UNCHANGED <<terms, term_slots>>
          /\ slots' = slots \/ \E path, required : slots' = SlotsAfter(path, required)
        BY <1>7 DEF BindControl
    <2>2. \A i \in DOMAIN slots : i \in DOMAIN slots' /\ slots'[i] = slots[i]
        <3>1. ASSUME NEW path, NEW required, slots' = SlotsAfter(path, required)
              PROVE  \A i \in DOMAIN slots : i \in DOMAIN slots' /\ slots'[i] = slots[i]
            <4>1. PICK slot : slot = Acquired(path)
                OBVIOUS
            <4>2. slots' = slots \/ (slot = Len(slots) + 1 /\ IsSeq(slots') /\ Len(slots') = slot
                                     /\ \A i \in 1..Len(slots) : slots'[i] = slots[i])
                <5>1. \/ slots' = slots /\ slot = 0
                      \/ slots' = slots /\ slot \in 1..Len(slots) /\ slots[slot].path = path
                      \/ /\ slot = Len(slots) + 1 /\ IsSeq(slots') /\ Len(slots') = slot
                         /\ \A i \in 1..Len(slots) : slots'[i] = slots[i] /\ slots[i].path # path
                         /\ slots'[slot] = [path |-> path, binding |-> output_map[path], required |-> required]
                         /\ path \in DOMAIN output_map /\ Reusable(path) = {}
                    BY <3>1, <4>1, AcquiredIs
                <5> QED
                    BY <5>1
            <4> QED
                BY <1>1, <4>2, SeqIs
        <3> QED
            BY <2>1, <3>1
    <2> QED
        BY <2>1, <2>2 DEF TermsBound, BoundByTerm
<1>8. Refuse \/ LoadJoints \/ ParseActions \/ StartIndexing \/ CheckSizes
          \/ NextTerm \/ StartControl \/ FinishPairing \/ Build
        => UNCHANGED <<terms, slots, term_slots>> /\ (phase' = "binding" => phase = "binding")
    BY DEF LoadJoints, ParseActions, StartIndexing, CheckSizes, Refuse,
           NextTerm, StartControl, FinishPairing, Build
<1> QED
    BY <1>2, <1>3, <1>4, <1>5, <1>6, <1>7, <1>8 DEF Next

----------------------------------------------------------------------------
(* The end by a member of a slot that is not there.                        *)

LEMMA ReadingIs ==
    ASSUME NEW term, Shaped(term), NEW slot, NEW inputs,
           Reading(term, slot, inputs) = "null", inputs[slots[slot].path] # "null"
    PROVE  slots[slot].binding \notin Suited(term.take)
<1> DEFINE value == Transformed(inputs[slots[slot].path], term)
           binding == slots[slot].binding
<1>1. value # "null"
    BY DEF Transformed
<1> HIDE DEF value, binding
<1>2. term.take \in Takes
    BY DEF Shaped
<1>3. CASE term.take = "scalar"
    <2>1. Reading(term, slot, inputs) = IF binding \in ScalarTypes THEN value ELSE "unready"
        BY <1>3 DEF Reading, value, binding
    <2> QED
        BY <1>1, <2>1
<1>4. CASE term.take \in {"component", "vector"}
    <2>1. Reading(term, slot, inputs) = IF binding \in VectorTypes THEN value ELSE "null"
        BY <1>4 DEF Reading, value, binding
    <2> QED
        BY <1>1, <1>4, <2>1 DEF Suited, binding
<1>5. CASE term.take = "gravity"
    <2>1. Reading(term, slot, inputs) = IF binding = "quaternion" THEN value ELSE "null"
        BY <1>5 DEF Reading, value, binding
    <2> QED
        BY <1>1, <1>5, <2>1 DEF Suited, binding
<1> QED
    BY <1>2, <1>3, <1>4, <1>5 DEF Takes

\* Interface types suit one way to read only, but for components and whole vectors.
LEMMA SuitedAre ==
    ASSUME NEW a \in Takes, NEW b \in Takes, NEW type \in Suited(a), type \notin Suited(b)
    PROVE  Suited(a) \cap Suited(b) = {}
BY DEF Takes, Suited, ScalarTypes, VectorTypes

LEMMA CrashStep == TypesFit /\ ConfigRead /\ SlotsFit /\ TermsBound /\ CrashNeedsConflict /\ Next
                    => CrashNeedsConflict'
<1> SUFFICES ASSUME TypesFit, ConfigRead, SlotsFit, TermsBound, CrashNeedsConflict, Next, phase' = "crashed"
             PROVE  \E i, j \in DOMAIN terms' :
                        /\ ToSet(terms'[i].paths) \cap ToSet(terms'[j].paths) # {}
                        /\ Candidates(terms'[i]) \cap Candidates(terms'[j]) = {}
    BY DEF CrashNeedsConflict
<1>1. Build
    <2>1. phase # "crashed"
        BY DEF Next, LoadJoints, ParseActions, ParseTerm, StartIndexing, AssignIndex, CheckSizes, LoadSettings,
               BindTerm, NextTerm, StartControl, BindControl, FinishPairing, Build
    <2>2. ~(LoadJoints \/ ParseActions \/ ParseTerm \/ StartIndexing \/ AssignIndex \/ CheckSizes \/ LoadSettings
            \/ BindTerm \/ NextTerm \/ StartControl \/ BindControl \/ FinishPairing)
        BY <2>1 DEF LoadJoints, ParseActions, ParseTerm, StartIndexing, AssignIndex, CheckSizes, LoadSettings,
               BindTerm, NextTerm, StartControl, BindControl, FinishPairing, Refuse
    <2> QED
        BY <2>2 DEF Next
<1>2. PICK inputs \in [DOMAIN output_map -> {"unready", "finite", "infinite", "nan"}] :
        LET Stops == {i \in DOMAIN terms : TermOutcome(i, inputs) # "pushed"}
        IN  Stops # {} /\ TermOutcome(Min(Stops), inputs) = "null"
    BY <1>1 DEF Build
<1>3. terms' = terms /\ phase = "running"
    BY <1>1 DEF Build
<1>4. DOMAIN terms = 1..Len(terms) /\ Len(terms) \in Nat /\ DOMAIN term_slots = 1..Len(terms)
    BY SeqIs DEF TypesFit
<1>5. PICK i \in DOMAIN terms : TermOutcome(i, inputs) = "null"
    <2> DEFINE Stops == {i \in DOMAIN terms : TermOutcome(i, inputs) # "pushed"}
    <2>1. Stops \in SUBSET Nat /\ Stops # {} /\ TermOutcome(Min(Stops), inputs) = "null" /\ Stops \subseteq DOMAIN terms
        BY <1>2, <1>4
    <2> HIDE DEF Stops
    <2>2. Min(Stops) \in Stops
        BY <2>1, MinIs
    <2> QED
        BY <2>1, <2>2
<1>6. PICK j \in DOMAIN term_slots[i] :
        term_slots[i][j] # 0 /\ Reading(terms[i], term_slots[i][j], inputs) = "null"
    <2> DEFINE Readings == {Reading(terms[i], term_slots[i][j], inputs) :
                                j \in {k \in DOMAIN term_slots[i] : term_slots[i][k] # 0}}
               Classes == {ClassOf(constant) : constant \in ToSet(terms[i].constants)}
    <2>1. "null" \in Readings \cup Classes
        BY <1>5 DEF TermOutcome
    <2>2. \A constant : ClassOf(constant) # "null"
        BY DEF ClassOf
    <2>3. "null" \in Readings
        BY <2>1, <2>2
    <2> QED
        BY <2>3
<1> DEFINE slot == term_slots[i][j]
<1>7. /\ slot \in DOMAIN slots /\ slots[slot].path = terms[i].paths[j] /\ j \in DOMAIN terms[i].paths
      /\ BoundByTerm(slot)
    BY <1>6 DEF TermsBound
<1>8. slots[slot].path \in DOMAIN output_map
    BY <1>7 DEF SlotsFit
<1>9. inputs[slots[slot].path] # "null"
    <2>1. inputs[slots[slot].path] \in {"unready", "finite", "infinite", "nan"}
        BY <1>8
    <2> QED
        BY <2>1
<1> HIDE DEF slot
<1>10. Parsing
    BY <1>3 DEF Parsing, Unparsed
<1>11. \A t \in DOMAIN terms : Shaped(terms[t])
    BY <1>4, <1>10, TermsAre
<1>12. slots[slot].binding \notin Suited(terms[i].take)
    BY <1>6, <1>9, <1>11, ReadingIs DEF slot
<1>13. PICK t \in DOMAIN terms :
        slots[slot].path \in ToSet(terms[t].paths) /\ slots[slot].binding \in Candidates(terms[t])
    BY <1>7 DEF BoundByTerm
<1>14. ToSet(terms[i].paths) \cap ToSet(terms[t].paths) # {}
    BY <1>7, <1>13 DEF ToSet
<1>15. Candidates(terms[i]) \cap Candidates(terms[t]) = {}
    <2>1. Candidates(terms[i]) \subseteq Suited(terms[i].take) /\ Candidates(terms[t]) \subseteq Suited(terms[t].take)
        BY <1>11, CandidatesAre
    <2>2. terms[i].take \in Takes /\ terms[t].take \in Takes
        BY <1>11 DEF Shaped
    <2>3. slots[slot].binding \in Suited(terms[t].take)
        BY <1>13, <2>1
    <2>4. Suited(terms[t].take) \cap Suited(terms[i].take) = {}
        BY <1>12, <2>2, <2>3, SuitedAre
    <2> QED
        BY <2>1, <2>4
<1> QED
    BY <1>3, <1>14, <1>15

----------------------------------------------------------------------------
(* The frame, and the invariant.                                            *)

LEMMA PushedStays == UNCHANGED <<config, terms, term_slots>> => Pushed' = Pushed
<1> SUFFICES ASSUME UNCHANGED <<config, terms, term_slots>>
             PROVE  Pushed' = Pushed
    OBVIOUS
<1>1. FrameSize' = FrameSize
    BY SizesStay
<1>2. terms' = terms /\ term_slots' = term_slots
    OBVIOUS
<1> QED
    BY <1>1, <1>2 DEF Pushed, Origin

LEMMA FrameStep == FrameBuilt /\ Next => FrameBuilt'
<1> SUFFICES ASSUME FrameBuilt, Next, frame' # <<>>
             PROVE  phase' = "running" /\ frame' = Pushed'
    BY DEF FrameBuilt
<1>1. CASE Build
    <2>1. frame' = Pushed /\ phase' = phase /\ phase = "running" /\ UNCHANGED <<config, terms, term_slots>>
        BY <1>1 DEF Build
    <2> QED
        BY <2>1, PushedStays
<1>2. CASE ~Build
    <2>1. frame' = frame /\ phase # "running"
        BY <1>2 DEF Next, LoadJoints, ParseActions, ParseTerm, StartIndexing, AssignIndex, CheckSizes, LoadSettings,
               BindTerm, NextTerm, StartControl, BindControl, FinishPairing, Refuse
    <2> QED
        BY <2>1 DEF FrameBuilt
<1> QED
    BY <1>1, <1>2

LEMMA StaysBuilt == Built /\ UNCHANGED vars => Built'
<1> SUFFICES ASSUME Built, UNCHANGED vars
             PROVE  Built'
    OBVIOUS
<1>1. UNCHANGED <<phase, config, terms, output_map, cursor, slots, term_slots, frame>>
    BY DEF vars
<1>2. TypesFit' /\ ConfigRead'
    BY <1>1 DEF Built, TypesFit, ConfigRead, TermsKept, SpecAt, Parsed
<1>3. SettingsRead'
    BY <1>1, SizesStay DEF Built, SettingsRead
<1>4. OffsetsAssigned' /\ SlotsFit' /\ TermsBound'
    BY <1>1 DEF Built, OffsetsAssigned, InRow, EndOf, SlotsFit, TermsBound, BoundByTerm
<1>5. CrashNeedsConflict' /\ FrameBuilt'
    BY <1>1, PushedStays DEF Built, CrashNeedsConflict, FrameBuilt
<1> QED
    BY <1>2, <1>3, <1>4, <1>5 DEF Built

\* A bridge is in a state that the steps of load_bridge_config() (config.cpp:14-111),
\* before_pairing() (rl_bridge.cpp:72-85) and build_observation() (observation.cpp:12-135)
\* account for: offsets without gaps, one slot for a path, every slot bound by a term.
THEOREM BuiltAlways == Spec => []Built
<1>1. Init => Built
    <2> SUFFICES ASSUME Init PROVE Built
        OBVIOUS
    <2>1. terms = <<>> /\ slots = <<>> /\ term_slots = <<>> /\ frame = <<>> /\ phase = "joints" /\ cursor = Start
          /\ config \in Configurations
        BY DEF Init
    <2>2. TypesFit
        BY <2>1, EmptyIs DEF TypesFit, Phases, Unbound, Unparsed, Start
    <2>3. ConfigRead
        BY <2>1 DEF ConfigRead, Unparsed
    <2>4. SettingsRead /\ OffsetsAssigned
        BY <2>1 DEF SettingsRead, OffsetsAssigned
    <2>5. SlotsFit /\ TermsBound
        BY <2>1 DEF SlotsFit, TermsBound
    <2> QED
        BY <2>1, <2>2, <2>3, <2>4, <2>5 DEF Built, CrashNeedsConflict, FrameBuilt
<1>2. Built /\ [Next]_vars => Built'
    <2>1. Built /\ Next => Built'
        BY TypesStep, ConfigStep, SettingsStep, OffsetsStep, SlotsStep, BoundStep, CrashStep, FrameStep DEF Built
    <2> QED
        BY <2>1, StaysBuilt
<1> QED
    BY <1>1, <1>2, PTL DEF Spec

\* OneSlotPerPath: acquire_slot() (interface_binding.cpp:37-118) registers an interface once,
\* and every term reads the interface it names, whatever the configuration and the outputs.
THEOREM SlotsSafe == Spec => []OneSlotPerPath
<1>1. Built => OneSlotPerPath
    BY DEF Built, SlotsFit, TermsBound, OneSlotPerPath
<1> QED
    BY <1>1, BuiltAlways, PTL

\* CrashNeedsConflict: a null member is read (observation.cpp:12-135) only if two terms
\* read the same interface as different kinds of values.
THEOREM CrashSafe == Spec => []CrashNeedsConflict
<1>1. Built => CrashNeedsConflict
    BY DEF Built
<1> QED
    BY <1>1, BuiltAlways, PTL

----------------------------------------------------------------------------
(* Periods and ages.                                                        *)

LEMMA QuotientIs ==
    ASSUME NEW a \in Nat, NEW b \in Nat \ {0}
    PROVE  a \div b \in Nat /\ b * (a \div b) <= a /\ a < b * (a \div b) + b
<1>1. a = b * (a \div b) + (a % b) /\ a % b \in 0..(b - 1) /\ a \div b \in Int
    OBVIOUS
<1>2. a \div b \in Nat
    OBVIOUS
<1>3. \A q \in Nat : b * q \in Nat
    OBVIOUS
<1> QED
    BY <1>1, <1>2, <1>3

\* The quotient is the largest such number.
LEMMA QuotientGreatest ==
    ASSUME NEW a \in Nat, NEW b \in Nat \ {0}, NEW k \in Nat, b * k <= a
    PROVE  k <= a \div b
<1> DEFINE q == a \div b
<1>1. q \in Nat /\ a < b * q + b
    BY QuotientIs
<1> HIDE DEF q
<1>2. SUFFICES ASSUME k > q PROVE FALSE
    BY <1>1 DEF q
<1>3. k >= q + 1
    BY <1>1, <1>2
<1>4. \A x, y \in Nat : x >= y => b * x >= b * y
    <2>1. TAKE x, y \in Nat
    <2>2. HAVE x >= y
    <2>3. x - y \in Nat /\ b * (x - y) >= 0
        BY <2>2
    <2>4. b * x = b * y + b * (x - y)
        BY <2>3
    <2>5. b * x \in Nat /\ b * y \in Nat
        OBVIOUS
    <2> QED
        BY <2>3, <2>4, <2>5
<1>5. b * k >= b * (q + 1)
    BY <1>1, <1>3, <1>4
<1>6. b * (q + 1) = b * q + b /\ b * q \in Nat /\ b * k \in Nat
    BY <1>1
<1> QED
    BY <1>1, <1>5, <1>6

\* The rates and ages that are accepted are integers.
LEMMA RateIs ==
    ASSUME NEW c \in Configurations, NEW name \in {"policy_rate", "history_rate", "max_action_age"},
           NumberOk(c.parameters, name), IsSet(c.parameters, name)
    PROVE  c.parameters[name][2] \in Int
<1>1. IsConfiguration(c)
    BY BuilderAssumption
<1>2. /\ name \in DOMAIN c.parameters
      /\ c.parameters[name][1] \in {"integer", "double"} /\ c.parameters[name][2] \notin {Infinite, NaN}
    BY DEF NumberOk, NumberParameterOk, OfType, IsSet, ValueOr
<1>3. c.parameters[name][2] # Fraction /\ IsParameter(c.parameters[name])
    BY <1>1, <1>2 DEF IsConfiguration
<1>4. c.parameters[name][2] \in Int \/ c.parameters[name][2] \in Int \cup {Infinite, NaN, Fraction}
    BY <1>2, <1>3 DEF IsParameter
<1> QED
    BY <1>2, <1>3, <1>4

\* SettingsFitBridge: the settings that load_bridge_config() accepts (config.cpp:66-98)
\* are those the control loop takes for granted, for every configuration; a publication
\* period above zero and a timely policy it takes for granted besides.
THEOREM SettingsSafe == Spec => []SettingsFitBridge
<1>1. Built => SettingsFitBridge
    <2> SUFFICES ASSUME Built, phase \in {"binding", "control", "running", "crashed"}
                 PROVE  /\ HistoryPeriod(config) = 0 \/ HistoryPeriod(config) >= PubPeriod(config)
                        /\ ~IsSet(config.parameters, "max_action_age") =>
                                MaxActionAge(config) >= 2 * PubPeriod(config)
                        /\ HistoryLength(config) \in Nat \ {0} /\ InvalidMode(config) \in {"nan", "zero", "hold"}
        BY DEF SettingsFitBridge
    <2>1. SettingsOk(config) /\ HistoryLengthOk(config) /\ config \in Configurations
        BY DEF Built, SettingsRead, TypesFit
    <2> DEFINE p == PolicyRate(config)
               h == HistoryRate(config)
    <2>2. p \in Int
        <3>1. CASE IsSet(config.parameters, "policy_rate")
            BY <2>1, <3>1, RateIs DEF SettingsOk, PolicyRate, ValueOr
        <3>2. CASE ~IsSet(config.parameters, "policy_rate")
            BY <3>2 DEF PolicyRate, ValueOr
        <3> QED
            BY <3>1, <3>2
    <2>3. h \in Int
        <3>1. CASE IsSet(config.parameters, "history_rate")
            BY <2>1, <3>1, RateIs DEF SettingsOk, HistoryRate, ValueOr
        <3>2. CASE ~IsSet(config.parameters, "history_rate")
            BY <2>2, <3>2 DEF HistoryRate, ValueOr
        <3> QED
            BY <3>1, <3>2
    <2>4. p \in Nat \ {0} /\ h \in Nat \ {0} /\ h <= p
        <3>1. p > 0 /\ h > 0 /\ h <= p
            BY <2>1 DEF SettingsOk, HistoryRateOk
        <3> HIDE DEF p, h
        <3> QED
            BY <2>2, <2>3, <3>1
    <2>5. Second \in Nat
        BY SecondAssumption
    <2> DEFINE period == Second \div p
    <2>6. period \in Nat /\ p * period <= Second
        <3> HIDE DEF p
        <3> QED
            BY <2>4, <2>5, QuotientIs
    <2>7. HistoryPeriod(config) = 0 \/ HistoryPeriod(config) >= PubPeriod(config)
        <3>1. HistoryPeriod(config) = IF h = p THEN 0 ELSE Second \div h
            BY DEF HistoryPeriod
        <3>2. PubPeriod(config) = period
            BY DEF PubPeriod
        <3> HIDE DEF p, h, period
        <3>3. h * period <= Second
            <4>1. (p - h) * period >= 0 /\ p * period = (p - h) * period + h * period
                BY <2>4, <2>6
            <4>2. h * period \in Nat /\ p * period \in Nat /\ (p - h) * period \in Nat
                BY <2>4, <2>6
            <4> QED
                BY <2>5, <2>6, <4>1, <4>2
        <3>4. period <= Second \div h
            BY <2>4, <2>5, <2>6, <3>3, QuotientGreatest
        <3>5. Second \div h \in Nat
            BY <2>4, <2>5, QuotientIs
        <3> QED
            BY <2>6, <3>1, <3>2, <3>4, <3>5
    <2>8. ~IsSet(config.parameters, "max_action_age") => MaxActionAge(config) >= 2 * PubPeriod(config)
        <3>1. HAVE ~IsSet(config.parameters, "max_action_age")
        <3>2. MaxActionAge(config) = (2 * Second) \div p
            BY <3>1 DEF MaxActionAge, ValueOr
        <3>3. PubPeriod(config) = period
            BY DEF PubPeriod
        <3> HIDE DEF p, period
        <3>4. p * (2 * period) <= 2 * Second /\ 2 * period \in Nat /\ 2 * Second \in Nat
            <4>1. p * (2 * period) = 2 * (p * period) /\ p * period \in Nat
                BY <2>4, <2>6
            <4> QED
                BY <2>5, <2>6, <4>1
        <3>5. 2 * period <= (2 * Second) \div p
            BY <2>4, <3>4, QuotientGreatest
        <3>6. (2 * Second) \div p \in Nat
            BY <2>4, <3>4, QuotientIs
        <3> QED
            BY <3>2, <3>3, <3>4, <3>5, <3>6
    <2>9. HistoryLength(config) \in Nat \ {0} /\ InvalidMode(config) \in {"nan", "zero", "hold"}
        BY <2>1 DEF HistoryLengthOk, SettingsOk
    <2> QED
        BY <2>7, <2>8, <2>9
<1> QED
    BY <1>1, BuiltAlways, PTL

----------------------------------------------------------------------------
(* Where the elements of a frame lie.                                       *)

\* Induction up to a bound, for a set.
LEMMA UpTo ==
    ASSUME NEW n \in Nat, NEW S, 0 \in S, \A k \in 1..n : k - 1 \in S => k \in S
    PROVE  0..n \subseteq S
<1> DEFINE Bad == {k \in 0..n : k \notin S}
<1>1. SUFFICES ASSUME Bad # {} PROVE FALSE
    OBVIOUS
<1>2. PICK m \in Bad : \A k \in Bad : m <= k
    <2>1. Bad \in SUBSET Nat
        OBVIOUS
    <2> HIDE DEF Bad
    <2> QED
        BY <1>1, <2>1, LeastExists
<1>3. m \in 1..n /\ m - 1 \in 0..n
    OBVIOUS
<1>4. m - 1 \in S
    BY <1>2, <1>3
<1> QED
    BY <1>2, <1>3, <1>4

\* Offsets that add up lengths: they grow, and every position lies in one row.
LEMMA Rows ==
    ASSUME NEW n \in Nat, NEW dim, \A k \in 1..n : dim[k] \in Nat,
           NEW p, p[0] = 0, \A k \in 1..n : p[k] = p[k - 1] + dim[k]
    PROVE  /\ \A k \in 0..n : p[k] \in Nat
           /\ \A i, j \in 0..n : i <= j => p[i] <= p[j]
           /\ \A at \in Nat : at < p[n] => \E k \in 1..n : p[k - 1] <= at /\ at < p[k]
<1>1. \A k \in 0..n : p[k] \in Nat
    <2> DEFINE S == {k \in 0..n : p[k] \in Nat}
    <2>1. 0 \in S
        OBVIOUS
    <2>2. ASSUME NEW k \in 1..n, k - 1 \in S
          PROVE  k \in S
        <3>1. p[k - 1] \in Nat /\ dim[k] \in Nat /\ p[k] = p[k - 1] + dim[k]
            BY <2>2
        <3> QED
            BY <3>1
    <2> HIDE DEF S
    <2>3. 0..n \subseteq S
        BY <2>1, <2>2, UpTo
    <2> QED
        BY <2>3 DEF S
<1>2. ASSUME NEW i \in 0..n, NEW j \in 0..n, i <= j
      PROVE  p[i] <= p[j]
    <2> DEFINE S == {k \in 0..n : i <= k => p[i] <= p[k]}
    <2>1. 0 \in S
        BY <1>1
    <2>2. ASSUME NEW k \in 1..n, k - 1 \in S
          PROVE  k \in S
        <3>1. CASE i <= k - 1
            <4>1. p[i] <= p[k - 1] /\ p[k] = p[k - 1] + dim[k] /\ dim[k] \in Nat
                BY <2>2, <3>1
            <4>2. p[i] \in Nat /\ p[k - 1] \in Nat
                BY <1>1
            <4>3. p[i] <= p[k]
                BY <4>1, <4>2
            <4> QED
                BY <4>3
        <3>2. CASE ~(i <= k - 1)
            <4>1. i <= k => i = k
                BY <3>2
            <4>2. p[k] <= p[k]
                BY <1>1
            <4> QED
                BY <4>1, <4>2
        <3> QED
            BY <3>1, <3>2
    <2> HIDE DEF S
    <2>3. 0..n \subseteq S
        BY <2>1, <2>2, UpTo
    <2> QED
        BY <1>2, <2>3 DEF S
<1>3. ASSUME NEW at \in Nat, at < p[n]
      PROVE  \E k \in 1..n : p[k - 1] <= at /\ at < p[k]
    <2> DEFINE Above == {k \in 0..n : at < p[k]}
    <2>1. PICK k \in Above : \A i \in Above : k <= i
        <3>1. Above \in SUBSET Nat /\ n \in Above
            BY <1>3
        <3> HIDE DEF Above
        <3> QED
            BY <3>1, LeastExists
    <2>2. k # 0
        BY <2>1
    <2>3. k \in 1..n /\ k - 1 \in 0..n
        BY <2>1, <2>2
    <2>4. k - 1 \notin Above
        BY <2>1, <2>3
    <2>5. p[k - 1] \in Nat /\ ~(at < p[k - 1])
        BY <1>1, <2>3, <2>4
    <2> QED
        BY <2>1, <2>3, <2>5
<1> QED
    BY <1>1, <1>2, <1>3

\* Sequences one after the other: where each starts, the concatenation of the first of
\* them, and where their elements are in it.
OffsetsOf(n, seqs, p) ==
    /\ \A k \in 1..n : IsSeq(seqs[k])
    /\ p[0] = 0 /\ \A k \in 1..n : p[k] = p[k - 1] + Len(seqs[k])
    /\ \A k \in 0..n : p[k] \in Nat
    /\ \A i, j \in 0..n : i <= j => p[i] <= p[j]
Joined(n, seqs, f) == f[1] = seqs[1] /\ \A k \in 2..n : f[k] = f[k - 1] \o seqs[k]
Spread(n, seqs, p, f) ==
    \A k \in 1..n : \A i \in 1..k : \A j \in 1..Len(seqs[i]) : f[k][p[i - 1] + j] = seqs[i][j]

\* The elements of a concatenation are those of its parts.
LEMMA FlattenElements ==
    ASSUME NEW n \in Nat, NEW seqs, NEW p, OffsetsOf(n, seqs, p), NEW f, Joined(n, seqs, f)
    PROVE  Spread(n, seqs, p, f)
<1> USE DEF OffsetsOf, Joined
<1> DEFINE Laid(k) == \A i \in 1..k : \A j \in 1..Len(seqs[i]) : f[k][p[i - 1] + j] = seqs[i][j]
           S == {k \in 0..n : k # 0 => IsSeq(f[k]) /\ Len(f[k]) = p[k] /\ Laid(k)}
<1>1. 0 \in S
    OBVIOUS
<1>2. ASSUME NEW k \in 1..n, k - 1 \in S
      PROVE  IsSeq(f[k]) /\ Len(f[k]) = p[k] /\ Laid(k)
    <2>1. IsSeq(seqs[k]) /\ Len(seqs[k]) \in Nat
        BY SeqIs
    <2>2. CASE k = 1
        <3>1. f[k] = seqs[k] /\ p[k] = Len(seqs[k]) /\ p[k - 1] = 0
            BY <2>1, <2>2
        <3>2. ASSUME NEW i \in 1..k, NEW j \in 1..Len(seqs[i])
              PROVE  f[k][p[i - 1] + j] = seqs[i][j]
            <4>1. i = k
                BY <2>2
            <4>2. p[i - 1] + j = j
                BY <2>1, <3>1, <4>1
            <4> QED
                BY <3>1, <4>1, <4>2
        <3> QED
            BY <2>1, <3>1, <3>2
    <2>3. CASE k # 1
        <3>1. k \in 2..n /\ k - 1 \in 1..n /\ k - 1 # 0
            BY <2>3
        <3>2. IsSeq(f[k - 1]) /\ Len(f[k - 1]) = p[k - 1] /\ Laid(k - 1)
            BY <1>2, <3>1
        <3>3. f[k] = f[k - 1] \o seqs[k]
            BY <3>1
        <3>4. /\ IsSeq(f[k]) /\ Len(f[k]) = p[k - 1] + Len(seqs[k])
              /\ \A i \in 1..p[k - 1] : f[k][i] = f[k - 1][i]
              /\ \A i \in 1..Len(seqs[k]) : f[k][p[k - 1] + i] = seqs[k][i]
            <4>1. PICK a, b : a = f[k - 1] /\ b = seqs[k]
                OBVIOUS
            <4>2. IsSeq(a) /\ IsSeq(b) /\ Len(a) = p[k - 1] /\ f[k] = a \o b
                BY <2>1, <3>2, <3>3, <4>1
            <4>3. /\ IsSeq(a \o b) /\ Len(a \o b) = Len(a) + Len(b)
                  /\ \A i \in 1..Len(a) : (a \o b)[i] = a[i]
                  /\ \A i \in 1..Len(b) : (a \o b)[Len(a) + i] = b[i]
                <5>1. IsSeq(a) /\ IsSeq(b)
                    BY <4>2
                <5>2. IsSeq(a \o b) /\ Len(a \o b) = Len(a) + Len(b)
                    BY <5>1, ConcatIs
                <5>3. \A i \in 1..Len(a) : (a \o b)[i] = a[i]
                    BY <5>1, ConcatIs
                <5>4. \A i \in 1..Len(b) : (a \o b)[Len(a) + i] = b[i]
                    BY <5>1, ConcatIs
                <5> QED
                    BY <5>2, <5>3, <5>4
            <4> QED
                BY <4>1, <4>2, <4>3
        <3>5. ASSUME NEW i \in 1..k, NEW j \in 1..Len(seqs[i])
              PROVE  f[k][p[i - 1] + j] = seqs[i][j]
            <4>1. CASE i = k
                BY <3>4, <4>1
            <4>2. CASE i # k
                <5>1. i \in 1..(k - 1) /\ i \in 0..n /\ i - 1 \in 0..n /\ k - 1 \in 0..n /\ i <= k - 1 /\ i \in 1..n
                    BY <3>1, <4>2
                <5>2. p[i] = p[i - 1] + Len(seqs[i]) /\ p[i] <= p[k - 1] /\ p[i - 1] \in Nat /\ p[k - 1] \in Nat
                    BY <5>1
                <5>3. Len(seqs[i]) \in Nat
                    BY <5>1, SeqIs
                <5>4. p[i - 1] + j \in 1..p[k - 1]
                    BY <5>2, <5>3
                <5>5. f[k - 1][p[i - 1] + j] = seqs[i][j]
                    BY <3>2, <5>1
                <5> QED
                    BY <3>4, <5>4, <5>5
            <4> QED
                BY <4>1, <4>2
        <3> QED
            BY <3>4, <3>5
    <2> QED
        BY <2>2, <2>3
<1> HIDE DEF Laid
<1>3. ASSUME NEW k \in 1..n, k - 1 \in S
      PROVE  k \in S
    BY <1>2, <1>3
<1> HIDE DEF S
<1>4. 0..n \subseteq S
    BY <1>1, <1>3, UpTo
<1>5. ASSUME NEW k \in 1..n
      PROVE  Laid(k)
    BY <1>4 DEF S
<1> QED
    BY <1>5 DEF Laid, Spread

LEMMA FrameIsLayout ==
    ASSUME TypesFit, ConfigRead, OffsetsAssigned, FrameBuilt
    PROVE  FrameFollowsLayout
<1> DEFINE Elements(i) == [k \in 1..terms[i].dim |-> Origin(i, k - 1)]
           seqs == [i \in DOMAIN terms |-> Elements(i)]
           n == Len(terms)
           dims == [i \in 1..n |-> terms[i].dim]
<1>1. SUFFICES ASSUME frame # <<>>, NEW at \in 0..FrameSize - 1
               PROVE  frame[at] = FlattenSeq(seqs)[at + 1]
    BY DEF FrameFollowsLayout
<1>2. phase = "running" /\ frame = Pushed
    BY <1>1 DEF FrameBuilt
<1>3. n \in Nat /\ DOMAIN terms = 1..n
    BY SeqIs DEF TypesFit
<1>4. \A i \in 1..n : terms[i].dim \in Nat
    <2>1. Parsing
        BY <1>2 DEF Parsing, Unparsed
    <2> QED
        BY <2>1, TermsAre DEF Shaped
<1>5. InRow(n)
    BY <1>2 DEF OffsetsAssigned
<1>6. n # 0
    <2>1. /\ ObservationSpecs(config) # <<>> /\ StringsOk(config.parameters, "observation_terms")
          /\ n = Len(ObservationSpecs(config)) /\ config \in Configurations
        BY <1>2 DEF ConfigRead, TypesFit, Unparsed
    <2>2. n # 0
        BY <2>1
    <2> QED
        BY <2>2
<1>7. PICK p : p[0] = 0 /\ (\A k \in 1..n : p[k] = p[k - 1] + terms[k].dim) /\ FrameSize = p[n]
    BY <1>3, DimUnfolds, FrameSizeIs
<1>8. /\ \A k \in 0..n : p[k] \in Nat
      /\ \A i, j \in 0..n : i <= j => p[i] <= p[j]
      /\ \A a \in Nat : a < p[n] => \E k \in 1..n : p[k - 1] <= a /\ a < p[k]
    <2>1. \A k \in 1..n : dims[k] \in Nat
        BY <1>4
    <2>2. \A k \in 1..n : p[k] = p[k - 1] + dims[k]
        BY <1>7
    <2>3. p[0] = 0
        BY <1>7
    <2> HIDE DEF dims, n
    <2> QED
        BY <1>3, <2>1, <2>2, <2>3, Rows
<1>9. ASSUME NEW i \in 1..n
      PROVE  terms[i].index = p[i - 1]
    <2> DEFINE S == {k \in 0..n : k # 0 => terms[k].index = p[k - 1]}
    <2>1. 0 \in S
        BY <1>3
    <2>2. ASSUME NEW k \in 1..n, k - 1 \in S
          PROVE  k \in S
        <3>1. CASE k = 1
            BY <1>3, <1>5, <1>7, <3>1 DEF InRow
        <3>2. CASE k # 1
            <4>1. k - 1 \in 1..n /\ k - 1 # 0
                BY <1>3, <3>2
            <4>2. terms[k].index = terms[k - 1].index + terms[k - 1].dim
                BY <1>5, <3>2 DEF InRow, EndOf
            <4>3. terms[k - 1].index = p[(k - 1) - 1]
                BY <2>2, <4>1
            <4>4. p[k - 1] = p[(k - 1) - 1] + terms[k - 1].dim
                BY <1>7, <4>1
            <4>5. terms[k].index = p[k - 1]
                BY <4>2, <4>3, <4>4
            <4> QED
                BY <1>3, <4>5
        <3> QED
            BY <3>1, <3>2
    <2> HIDE DEF S
    <2>3. 0..n \subseteq S
        BY <1>3, <2>1, <2>2, UpTo
    <2>4. i \in 0..n /\ i # 0
        BY <1>3
    <2> QED
        BY <2>3, <2>4 DEF S
<1>10. PICK k \in 1..n : p[k - 1] <= at /\ at < p[k]
    <2>1. at \in Nat /\ at < p[n]
        BY <1>3, <1>7, <1>8
    <2> QED
        BY <1>8, <2>1
<1>11. k - 1 \in 0..n /\ k \in 0..n /\ p[k - 1] \in Nat /\ p[k] \in Nat /\ at \in Nat /\ terms[k].dim \in Nat
    BY <1>3, <1>4, <1>7, <1>8
<1>12. frame[at] = Origin(k, at - p[k - 1])
    <2> DEFINE Writers == {i \in DOMAIN terms : at - terms[i].index \in 0..terms[i].dim - 1}
    <2>1. ASSUME NEW i \in Writers
          PROVE  i = k
        <3>1. i \in 1..n /\ i - 1 \in 0..n /\ i \in 0..n
            BY <1>3
        <3>2. p[i - 1] <= at /\ at < p[i]
            <4>1. at - p[i - 1] \in 0..terms[i].dim - 1
                BY <1>9, <2>1, <3>1
            <4>2. p[i - 1] \in Nat /\ p[i] = p[i - 1] + terms[i].dim /\ terms[i].dim \in Nat
                BY <1>4, <1>7, <1>8, <3>1
            <4> QED
                BY <1>11, <4>1, <4>2
        <3>3. p[i] \in Nat /\ p[i - 1] \in Nat
            BY <1>8, <3>1
        <3>4. CASE i < k
            <4>1. i <= k - 1
                BY <1>3, <3>1, <3>4
            <4>2. p[i] <= p[k - 1]
                BY <1>8, <1>11, <3>1, <4>1
            <4> QED
                BY <1>10, <1>11, <3>2, <3>3, <4>2
        <3>5. CASE k < i
            <4>1. k <= i - 1
                BY <1>3, <3>1, <3>5
            <4>2. p[k] <= p[i - 1]
                BY <1>8, <1>11, <3>1, <4>1
            <4> QED
                BY <1>10, <1>11, <3>2, <3>3, <4>2
        <3> QED
            BY <1>3, <3>1, <3>4, <3>5
    <2>2. k \in Writers
        <3>1. at - p[k - 1] \in 0..terms[k].dim - 1
            <4>1. p[k] = p[k - 1] + terms[k].dim
                BY <1>7
            <4> QED
                BY <1>10, <1>11, <4>1
        <3> QED
            BY <1>3, <1>9, <3>1
    <2>3. Writers = {k}
        BY <2>1, <2>2
    <2>4. Max(Writers) = k
        <3>1. \A x \in {k} : k >= x
            BY <1>11
        <3>2. {k} \in SUBSET Nat /\ k \in {k}
            BY <1>3
        <3> HIDE DEF Writers
        <3> QED
            BY <2>3, <3>1, <3>2, MaxIs
    <2>5. Pushed[at] = IF Writers = {} THEN [from |-> "nothing", element |-> 0]
                       ELSE Origin(Max(Writers), at - terms[Max(Writers)].index)
        BY DEF Pushed
    <2> HIDE DEF Writers
    <2>6. Pushed[at] = Origin(k, at - terms[k].index)
        BY <2>3, <2>4, <2>5
    <2> QED
        BY <1>2, <1>9, <2>6
<1>13. ASSUME NEW i \in 1..n
       PROVE  /\ seqs[i] = Elements(i) /\ IsSeq(seqs[i]) /\ Len(seqs[i]) = terms[i].dim
    <2> DEFINE e == Elements(i)
    <2>1. DOMAIN e = 1..terms[i].dim /\ e = [j \in 1..terms[i].dim |-> e[j]]
        OBVIOUS
    <2>2. IsSeq(e) /\ Len(e) = terms[i].dim
        <3> HIDE DEF e
        <3> QED
            BY <1>4, <2>1, SeqOfIs
    <2>3. seqs[i] = e
        BY <1>3
    <2> QED
        BY <2>2, <2>3
<1>14. Len(seqs) = n
    <2>1. DOMAIN seqs = 1..n /\ seqs = [i \in 1..n |-> seqs[i]]
        BY <1>3
    <2> HIDE DEF seqs, n
    <2> QED
        BY <1>3, <2>1, SeqOfIs
<1>15. PICK f : /\ f[1] = seqs[1] /\ \A i \in 2..n : f[i] = f[i - 1] \o seqs[i]
                /\ FlattenSeq(seqs) = f[n]
    <2> HIDE DEF seqs, n
    <2> QED
        BY <1>3, <1>6, <1>14, FlattenUnfolds
<1>16. \A i \in 1..n : \A j \in 1..Len(seqs[i]) : f[n][p[i - 1] + j] = seqs[i][j]
    <2>1. \A i \in 1..n : IsSeq(seqs[i])
        BY <1>13
    <2>2. n \in 1..n
        BY <1>3, <1>6
    <2>4. \A i \in 1..n : p[i] = p[i - 1] + Len(seqs[i])
        BY <1>7, <1>13
    <2>5. p[0] = 0 /\ (\A i \in 0..n : p[i] \in Nat) /\ \A i, j \in 0..n : i <= j => p[i] <= p[j]
        BY <1>7, <1>8
    <2> HIDE DEF seqs, n
    <2>6. Joined(n, seqs, f)
        BY <1>15 DEF Joined
    <2>7. OffsetsOf(n, seqs, p)
        BY <2>1, <2>4, <2>5 DEF OffsetsOf
    <2>8. Spread(n, seqs, p, f)
        BY <1>3, <2>6, <2>7, FlattenElements
    <2> QED
        BY <2>2, <2>8 DEF Spread
<1> DEFINE j == at - p[k - 1] + 1
<1>17. j \in 1..terms[k].dim /\ p[k - 1] + j = at + 1 /\ j - 1 = at - p[k - 1]
    <2>1. p[k] = p[k - 1] + terms[k].dim
        BY <1>7
    <2> QED
        BY <1>10, <1>11, <2>1
<1>18. f[n][at + 1] = seqs[k][j]
    <2>1. Len(seqs[k]) = terms[k].dim
        BY <1>13
    <2> HIDE DEF seqs, n, j
    <2>2. j \in 1..Len(seqs[k])
        BY <1>17, <2>1
    <2>3. f[n][p[k - 1] + j] = seqs[k][j]
        BY <1>16, <2>2
    <2> QED
        BY <1>17, <2>3
<1>19. seqs[k][j] = Origin(k, j - 1)
    <2>1. seqs[k] = Elements(k)
        BY <1>13
    <2> HIDE DEF seqs, j
    <2> QED
        BY <1>17, <2>1
<1> QED
    BY <1>12, <1>15, <1>17, <1>18, <1>19

\* FrameFollowsLayout: build_observation() (observation.cpp:12-135) fills a frame with the
\* elements of the terms in the order that the layout signature names, whatever the
\* configuration: every element once, none left out.
THEOREM FrameSafe == Spec => []FrameFollowsLayout
<1>1. Built => FrameFollowsLayout
    BY FrameIsLayout DEF Built
<1> QED
    BY <1>1, BuiltAlways, PTL

----------------------------------------------------------------------------
(* The bridge and the tools on one spec.                                    *)

LEMMA LowerIs ==
    ASSUME NEW text \in Keywords
    PROVE  Lower(text) = text
BY LowerCaseAssumption DEF Lower

\* A list without an empty piece is split as it stands.
LEMMA SplitWhole ==
    ASSUME NEW S, NEW pieces \in Seq(S), pieces # <<>>, Empty \notin ToSet(pieces)
    PROVE  SplitBy(pieces) = pieces
<1>1. Len(pieces) \in DOMAIN pieces
    OBVIOUS
<1>2. Last(pieces) \in ToSet(pieces)
    BY <1>1 DEF Last, ToSet
<1> QED
    BY <1>2 DEF SplitBy

\* The entry of a term, from what identifies it without a name and from its elements.
EntryOf(spec, id, dim) ==
    [id |-> IF Has(spec, "name") THEN <<Value(spec, "name")>> ELSE id, scale |-> ScaleOf(spec), dim |-> dim]

LEMMA FinishedEntry ==
    ASSUME NEW spec, NEW term, Shaped(term)
    PROVE  ObsEntry(Finished(spec, term)) = EntryOf(spec, term.id, term.dim)
BY DEF Shaped, TermFields, NewTerm, Finished, ObsEntry, EntryOf

LEMMA JointEntries ==
    ASSUME NEW spec, IsSpec(spec), NEW c, NEW n \in Nat, Text(spec, "type") \in JointKinds,
           ObsTermOk(spec, c, n), ToolObsTermOk(spec, n)
    PROVE  ObsEntry(ObsTerm(spec, c, n)) = ToolObsEntry(spec, n)
<1> DEFINE kind == Text(spec, "type")
           value == Value(spec, "joints")
           joints == SplitBy(value)
           flag == IF Zero(spec) THEN "zero" ELSE IF Relative(spec) THEN "rel" ELSE "abs"
           mode == IF kind # "joint_pos" THEN "abs"
                   ELSE IF ToolTrue(Text(spec, "relative")) THEN "rel"
                   ELSE IF ToolTrue(Text(spec, "zero")) THEN "zero" ELSE "abs"
           term == JointTerm(spec, c)
<1>1. kind \in {"joint_pos", "joint_vel", "joint_torque"}
    BY DEF JointKinds, JointField
<1>2. LowerText(spec, "type") = kind /\ Has(spec, "type")
    <2>1. kind \in Keywords /\ kind # ""
        BY <1>1 DEF Keywords
    <2> QED
        BY <2>1, LowerIs DEF LowerText, Text
<1> HIDE DEF kind
<1>3. JointTermOk(spec, c) /\ ObsTerm(spec, c, n) = Finished(spec, term)
    BY <1>1 DEF ObsTermOk, ObsTerm, kind
<1>4. ToolJointOk(spec)
    <2>1. kind \in JointKinds /\ kind \notin INTERFACE_TYPES /\ kind # "last_action" /\ kind # "constant"
        BY <1>1 DEF JointKinds, JointField, INTERFACE_TYPES, SCALAR_INTERFACE_TYPES, VECTOR_INTERFACE_TYPES
    <2> QED
        BY <1>2, <2>1 DEF ToolObsTermOk
<1>5. joints = value
    <2>1. Has(spec, "joints") /\ Empty \notin ToSet(value)
        BY <1>4 DEF ToolJointOk
    <2>2. PICK i \in 1..Len(spec) : spec[i][1] = "joints" /\ value = spec[i][2] /\ IsToken(spec[i])
        BY <2>1, ValueIs
    <2>3. value \in Seq(STRING \cup {Empty}) /\ value # <<>>
        BY <2>2 DEF IsToken
    <2> HIDE DEF value
    <2> QED
        BY <2>1, <2>3, SplitWhole
<1>6. term.id = <<kind, flag, joints>> /\ term.dim = Len(joints)
    BY DEF JointTerm, NewTerm, kind
<1>7. flag = mode
    <2>1. ASSUME NEW key \in {"relative", "zero"}
          PROVE  ToolTrue(Text(spec, key)) <=> IsTrue(Text(spec, key))
        <3>1. BoolTokenOk(spec, key)
            BY <1>3 DEF JointTermOk
        <3>2. Text(spec, key) \in {"", "true", "1", "false", "0"}
            BY <3>1 DEF BoolTokenOk, IsBoolean, Text
        <3>3. Text(spec, key) \in Keywords
            BY <3>2 DEF Keywords
        <3>4. Lower(Text(spec, key)) = Text(spec, key)
            BY <3>3, LowerIs
        <3> QED
            BY <3>2, <3>4 DEF ToolTrue, IsTrue
    <2>2. /\ Relative(spec) <=> ToolTrue(Text(spec, "relative"))
          /\ Zero(spec) <=> ToolTrue(Text(spec, "zero"))
        BY <2>1 DEF Relative, Zero
    <2>3. /\ Relative(spec) \/ Zero(spec) => kind = "joint_pos"
          /\ ~(Relative(spec) /\ Zero(spec))
        BY <1>3 DEF JointTermOk, kind
    <2> QED
        BY <2>2, <2>3
<1>8. ToolObsEntry(spec, n) = EntryOf(spec, <<kind, mode, value>>, Len(value))
    BY <1>1, <1>2 DEF ToolObsEntry, EntryOf, JointKinds, JointField
<1>9. Shaped(term)
    BY <1>3, JointTermIs
<1>10. ObsEntry(ObsTerm(spec, c, n)) = EntryOf(spec, term.id, term.dim)
    BY <1>3, <1>9, FinishedEntry
<1> HIDE DEF term, flag, mode, joints, value
<1> QED
    BY <1>5, <1>6, <1>7, <1>8, <1>10

LEMMA LastActionEntries ==
    ASSUME NEW spec, IsSpec(spec), NEW c, NEW n \in Nat, Text(spec, "type") = "last_action",
           ObsTermOk(spec, c, n), ToolObsTermOk(spec, n)
    PROVE  ObsEntry(ObsTerm(spec, c, n)) = ToolObsEntry(spec, n)
<1> DEFINE value == Value(spec, "indices")
           indices == IF Has(spec, "indices") THEN ExpandedAll(SplitBy(value)) ELSE [i \in 1..n |-> i - 1]
           toolIndices == IF Has(spec, "indices") THEN ToolIndices(value) ELSE [i \in 1..n |-> i - 1]
           term == LastActionTerm(spec, n)
<1>1. "last_action" \notin JointKinds /\ "last_action" # "constant"
    BY DEF JointKinds, JointField
<1>2. LowerText(spec, "type") = "last_action" /\ Has(spec, "type")
    <2>1. "last_action" \in Keywords /\ "last_action" # ""
        BY DEF Keywords
    <2> QED
        BY <2>1, LowerIs DEF LowerText, Text
<1>3. LastActionOk(spec, n) /\ ObsTerm(spec, c, n) = Finished(spec, term)
    BY <1>1 DEF ObsTermOk, ObsTerm
<1>4. ToolLastActionOk(spec, n)
    BY <1>1, <1>2 DEF ToolObsTermOk, INTERFACE_TYPES, SCALAR_INTERFACE_TYPES, VECTOR_INTERFACE_TYPES
<1>5. indices = toolIndices
    <2>1. SUFFICES ASSUME Has(spec, "indices") PROVE ExpandedAll(SplitBy(value)) = ToolIndices(value)
        OBVIOUS
    <2>2. PICK i \in 1..Len(spec) : spec[i][1] = "indices" /\ value = spec[i][2] /\ IsToken(spec[i])
        BY <2>1, ValueIs
    <2>3. value \in Seq({Empty} \cup Seq(Numbers)) /\ value # <<>>
        BY <2>2 DEF IsToken
    <2>4. Empty \notin ToSet(value)
        BY <1>4, <2>1 DEF ToolLastActionOk, ToolPieceOk
    <2>5. SplitBy(value) = value
        <3> HIDE DEF value
        <3> QED
            BY <2>3, <2>4, SplitWhole
    <2> HIDE DEF value
    <2> QED
        BY <2>5 DEF ExpandedAll, ToolIndices, Expanded, ToolExpanded
<1>6. term.id = <<"last_action", indices>> /\ term.dim = Len(indices)
    BY DEF LastActionTerm, NewTerm
<1>7. ToolObsEntry(spec, n) = EntryOf(spec, <<"last_action", toolIndices>>, Len(toolIndices))
    BY <1>1, <1>2 DEF ToolObsEntry, EntryOf
<1>8. ObsEntry(ObsTerm(spec, c, n)) = EntryOf(spec, term.id, term.dim)
    BY <1>3, LastActionTermIs, FinishedEntry
<1> HIDE DEF term, indices, toolIndices
<1> QED
    BY <1>5, <1>6, <1>7, <1>8

LEMMA ConstantEntries ==
    ASSUME NEW spec, IsSpec(spec), NEW c, NEW n \in Nat, Text(spec, "type") = "constant",
           ObsTermOk(spec, c, n), ToolObsTermOk(spec, n)
    PROVE  ObsEntry(ObsTerm(spec, c, n)) = ToolObsEntry(spec, n)
<1> DEFINE value == Value(spec, "value")
           term == ConstantTerm(spec)
<1>1. "constant" \notin JointKinds /\ "constant" # "last_action"
    BY DEF JointKinds, JointField
<1>2. LowerText(spec, "type") = "constant" /\ Has(spec, "type")
    <2>1. "constant" \in Keywords /\ "constant" # ""
        BY DEF Keywords
    <2> QED
        BY <2>1, LowerIs DEF LowerText, Text
<1>3. ConstantOk(spec) /\ ObsTerm(spec, c, n) = Finished(spec, term)
    BY <1>1 DEF ObsTermOk, ObsTerm
<1>4. ToolConstantOk(spec)
    BY <1>1, <1>2 DEF ToolObsTermOk, INTERFACE_TYPES, SCALAR_INTERFACE_TYPES, VECTOR_INTERFACE_TYPES
<1>5. SplitBy(value) = value
    <2>1. Has(spec, "value") /\ Empty \notin ToSet(value)
        BY <1>4 DEF ToolConstantOk, Finite
    <2>2. PICK i \in 1..Len(spec) : spec[i][1] = "value" /\ value = spec[i][2] /\ IsToken(spec[i])
        BY <2>1, ValueIs
    <2>3. value \in Seq(Numbers) /\ value # <<>>
        BY <2>2 DEF IsToken
    <2> HIDE DEF value
    <2> QED
        BY <2>1, <2>3, SplitWhole
<1>6. term.id = <<"constant", SplitBy(value)>> /\ term.dim = Len(SplitBy(value))
    BY DEF ConstantTerm, NewTerm
<1>7. ToolObsEntry(spec, n) = EntryOf(spec, <<"constant", value>>, Len(value))
    BY <1>1, <1>2 DEF ToolObsEntry, EntryOf
<1>8. ObsEntry(ObsTerm(spec, c, n)) = EntryOf(spec, term.id, term.dim)
    BY <1>3, ConstantTermIs, FinishedEntry
<1> HIDE DEF term, value
<1> QED
    BY <1>5, <1>6, <1>7, <1>8

\* A path term has a type that both sides know, if any, and they see what it takes alike.
LEMMA PathTypeIs ==
    ASSUME NEW spec, NEW n \in Nat, PathTermOk(spec), ToolObsTermOk(spec, n),
           Text(spec, "type") \notin JointKinds \cup {"last_action", "constant"}
    PROVE  /\ LowerText(spec, "type") = Text(spec, "type")
           /\ Text(spec, "type") # "" => Has(spec, "type") /\ Text(spec, "type") \in INTERFACE_TYPES
           /\ ToolPathOk(spec)
<1> DEFINE type == Text(spec, "type")
           take == TakeOf(Text(spec, "take"), Text(spec, "transform"))
<1>1. type # "" => Has(spec, "type")
    BY DEF Text
<1>2. type # "" => Binding(type) # "unknown"
    <2>1. type # "" => Binding(type) \in Suited(take)
        BY DEF PathTermOk
    <2>2. take \in Takes
        BY TakeIs DEF PathTermOk
    <2>3. "unknown" \notin Suited(take)
        <3> HIDE DEF take
        <3> QED
            BY <2>2 DEF Takes, Suited, ScalarTypes, VectorTypes
    <2> QED
        BY <2>1, <2>3
<1> HIDE DEF type, take
<1>3. type # "" => type \in INTERFACE_TYPES
    BY <1>2 DEF Binding, INTERFACE_TYPES, SCALAR_INTERFACE_TYPES, VECTOR_INTERFACE_TYPES
<1>4. type \in Keywords
    BY <1>3 DEF INTERFACE_TYPES, SCALAR_INTERFACE_TYPES, VECTOR_INTERFACE_TYPES, Keywords
<1>5. LowerText(spec, "type") = type
    BY <1>4, LowerIs DEF LowerText, type
<1>6. ToolPathOk(spec)
    <2>1. type \notin JointKinds \cup {"last_action", "constant"}
        BY DEF type
    <2>2. "" \notin INTERFACE_TYPES
        BY DEF INTERFACE_TYPES, SCALAR_INTERFACE_TYPES, VECTOR_INTERFACE_TYPES
    <2> QED
        BY <1>3, <1>5, <2>1, <2>2 DEF ToolObsTermOk
<1> QED
    BY <1>1, <1>3, <1>5, <1>6 DEF type

LEMMA PathTakesAgree ==
    ASSUME NEW spec, PathTermOk(spec), ToolPathOk(spec)
    PROVE  /\ ToolTake(spec) = TakeOf(Text(spec, "take"), Text(spec, "transform"))
           /\ ToolTake(spec) = "component" => LowerText(spec, "take") = Text(spec, "take")
<1> DEFINE axis == Text(spec, "take")
           transform == Text(spec, "transform")
           take == TakeOf(axis, transform)
<1>1. take # "unknown" /\ ToolTake(spec) # "unknown"
    BY DEF PathTermOk, ToolPathOk
<1>2. CASE Has(spec, "transform")
    <2>1. ~Has(spec, "take") /\ LowerText(spec, "transform") \in GRAVITY_TRANSFORMS /\ ToolTake(spec) = "gravity"
        BY <1>1, <1>2 DEF ToolTake
    <2>2. axis = ""
        BY <2>1 DEF Text
    <2>3. transform # ""
        <3>1. Lower("") = ""
            BY LowerIs DEF Keywords
        <3>2. "" \notin GRAVITY_TRANSFORMS
            BY DEF GRAVITY_TRANSFORMS
        <3> QED
            BY <2>1, <3>1, <3>2 DEF LowerText
    <2> HIDE DEF axis, transform
    <2>4. take = "gravity"
        BY <1>1, <2>3 DEF TakeOf
    <2> QED
        BY <2>1, <2>4 DEF axis, transform
<1>3. CASE ~Has(spec, "transform")
    <2>1. transform = ""
        BY <1>3 DEF Text
    <2>2. CASE ~Has(spec, "take")
        <3>1. ToolTake(spec) = "scalar"
            BY <1>1, <1>3, <2>2 DEF ToolTake
        <3>2. axis = ""
            BY <2>2 DEF Text
        <3> HIDE DEF axis, transform
        <3>3. take = "scalar"
            <4>1. ToSet(Axes) = {"x", "y", "z"} /\ VectorTakes = {"vec3", "vec", "all", "vector"}
                BY DEF Axes, VectorTakes, ToSet
            <4>2. "" \notin {"x", "y", "z"} /\ "" \notin {"vec3", "vec", "all", "vector"}
                OBVIOUS
            <4> QED
                BY <2>1, <3>2, <4>1, <4>2 DEF TakeOf
        <3> QED
            BY <3>1, <3>3 DEF axis, transform
    <2>3. CASE Has(spec, "take")
        <3> DEFINE lower == LowerText(spec, "take")
                   turned == LowerText(spec, "type") \notin SCALAR_INTERFACE_TYPES \cup VECTOR_INTERFACE_TYPES
        <3>1. ToolTake(spec) = CASE lower \in GRAVITY_TRANSFORMS /\ turned -> "gravity"
                                 [] lower \in ToSet(Axes) -> "component"
                                 [] lower \in VectorTakes -> "vector"
                                 [] OTHER -> "unknown"
            BY <1>1, <1>3, <2>3 DEF ToolTake
        <3>2. lower = Lower(axis)
            BY DEF LowerText
        <3> HIDE DEF axis, transform, lower, turned
        <3>3. /\ ToSet(Axes) = {"x", "y", "z"} /\ VectorTakes = {"vec3", "vec", "all", "vector"}
              /\ GRAVITY_TRANSFORMS = {"projected_gravity", "gravity"}
            BY DEF Axes, VectorTakes, ToSet, GRAVITY_TRANSFORMS
        <3>4. axis \in {"", "x", "y", "z", "vec3", "vec", "all", "vector", "gravity"}
            BY <1>1, <2>1, <3>3 DEF TakeOf
        <3>5. axis \in Keywords
            BY <3>4 DEF Keywords
        <3>6. lower = axis
            BY <3>2, <3>5, LowerIs
        <3>7. axis # ""
            BY <1>1, <3>1, <3>3, <3>6
        <3>8. CASE axis \in {"x", "y", "z"}
            <4>1. ToolTake(spec) = "component"
                BY <3>1, <3>3, <3>6, <3>8
            <4>2. take = "component"
                BY <2>1, <3>3, <3>8 DEF TakeOf
            <4> QED
                BY <3>6, <4>1, <4>2 DEF axis, transform, lower
        <3>9. CASE axis \in {"vec3", "vec", "all", "vector"}
            <4>1. ToolTake(spec) = "vector"
                BY <3>1, <3>3, <3>6, <3>9
            <4>2. take = "vector"
                BY <2>1, <3>3, <3>9 DEF TakeOf
            <4> QED
                BY <4>1, <4>2 DEF axis, transform
        <3>10. CASE axis = "gravity"
            <4>1. ToolTake(spec) = "gravity"
                BY <1>1, <3>1, <3>3, <3>6, <3>10
            <4>2. take = "gravity"
                BY <2>1, <3>3, <3>10 DEF TakeOf
            <4> QED
                BY <4>1, <4>2 DEF axis, transform
        <3> QED
            BY <3>4, <3>7, <3>8, <3>9, <3>10
    <2> QED
        BY <2>2, <2>3
<1> QED
    BY <1>2, <1>3

LEMMA PathEntries ==
    ASSUME NEW spec, NEW c, NEW n \in Nat,
           Text(spec, "type") \notin JointKinds \cup {"last_action", "constant"},
           ObsTermOk(spec, c, n), ToolObsTermOk(spec, n)
    PROVE  ObsEntry(ObsTerm(spec, c, n)) = ToolObsEntry(spec, n)
<1> DEFINE path == Text(spec, "path")
           axis == Text(spec, "take")
           take == TakeOf(axis, Text(spec, "transform"))
           term == PathTerm(spec)
<1>1. PathTermOk(spec) /\ ObsTerm(spec, c, n) = Finished(spec, term)
    BY DEF ObsTermOk, ObsTerm
<1>2. ToolPathOk(spec) /\ LowerText(spec, "type") = Text(spec, "type")
    BY <1>1, PathTypeIs
<1>3. ToolTake(spec) = take /\ (take = "component" => LowerText(spec, "take") = axis)
    BY <1>1, <1>2, PathTakesAgree
<1>4. take \in Takes
    BY <1>1, TakeIs DEF PathTermOk
<1>5. /\ term.dim = IF take \in {"vector", "gravity"} THEN 3 ELSE 1
      /\ term.id = CASE take = "scalar"    -> <<path>>
                     [] take = "component" -> <<"vec3c", path, axis>>
                     [] take = "vector"    -> <<"vec3", path>>
                     [] take = "gravity"   -> <<"gravity", path>>
    BY DEF PathTerm, NewTerm
<1>6. ObsEntry(ObsTerm(spec, c, n)) = EntryOf(spec, term.id, term.dim)
    BY <1>1, PathTermIs, FinishedEntry
<1>7. ToolObsEntry(spec, n) =
        CASE take = "scalar"    -> EntryOf(spec, <<path>>, 1)
          [] take = "component" -> EntryOf(spec, <<"vec3c", path, LowerText(spec, "take")>>, 1)
          [] take = "vector"    -> EntryOf(spec, <<"vec3", path>>, 3)
          [] take = "gravity"   -> EntryOf(spec, <<"gravity", path>>, 3)
    BY <1>2, <1>3 DEF ToolObsEntry, EntryOf
<1> HIDE DEF term, take, axis, path
<1>8. CASE take = "scalar"
    BY <1>5, <1>6, <1>7, <1>8
<1>9. CASE take = "component"
    BY <1>3, <1>5, <1>6, <1>7, <1>9
<1>10. CASE take = "vector"
    BY <1>5, <1>6, <1>7, <1>10
<1>11. CASE take = "gravity"
    BY <1>5, <1>6, <1>7, <1>11
<1> QED
    BY <1>4, <1>8, <1>9, <1>10, <1>11 DEF Takes

\* A spec that both sides accept has the same entry on both.
LEMMA EntriesAgree ==
    ASSUME NEW spec, IsSpec(spec), NEW c, NEW n \in Nat, ObsTermOk(spec, c, n), ToolObsTermOk(spec, n)
    PROVE  ObsEntry(ObsTerm(spec, c, n)) = ToolObsEntry(spec, n)
BY JointEntries, LastActionEntries, ConstantEntries, PathEntries

----------------------------------------------------------------------------
(* The bridge and the tools on one configuration.                           *)

LEMMA ToolFacts ==
    ASSUME NEW c, ToolAccepts(c)
    PROVE  /\ ActionSpecs(c) = ToolActions(c) /\ ObservationSpecs(c) = ToolObservations(c)
           /\ \A i \in DOMAIN ToolObservations(c) : ToolObsTermOk(ToolObservations(c)[i], ActionSize(c))
           /\ ToolSizeOk(c, "history_length")
<1>1. \A key \in {"action_terms", "observation_terms"} : ToolTermsOk(c, key)
    BY DEF ToolAccepts
<1>2. IsSet(c.parameters, "action_terms") /\ IsSet(c.parameters, "observation_terms")
    BY <1>1 DEF ToolTermsOk
<1>3. ActionSpecs(c) = ToolActions(c) /\ ObservationSpecs(c) = ToolObservations(c)
    BY <1>2 DEF ActionSpecs, ObservationSpecs, ToolActions, ToolObservations, ValueOr
<1>4. \A i \in DOMAIN ToolObservations(c) : ToolObsTermOk(ToolObservations(c)[i], ActionSize(c))
    BY <1>3 DEF ToolAccepts, ActionSize
<1>5. ToolSizeOk(c, "history_length")
    BY DEF ToolAccepts
<1> QED
    BY <1>3, <1>4, <1>5

LEMMA HistoryAgrees ==
    ASSUME NEW c \in Configurations, ToolSizeOk(c, "history_length"), HistoryLengthOk(c)
    PROVE  HistoryLength(c) = ToolHistory(c)
<1>1. HistoryLength(c) \in 1..64 /\ NaN \notin Int
    BY NumbersAssumption DEF HistoryLengthOk
<1>2. CASE IsSet(c.parameters, "history_length")
    <2> DEFINE v == c.parameters["history_length"][2]
    <2>1. c.parameters["history_length"][1] = "integer" /\ "history_length" \in DOMAIN c.parameters
        BY <1>2 DEF ToolSizeOk, OfType, IsSet
    <2>2. IsParameter(c.parameters["history_length"])
        BY <2>1, BuilderAssumption DEF IsConfiguration
    <2>3. v \in Int
        BY <2>1, <2>2 DEF IsParameter
    <2>4. HistoryLength(c) = v
        BY <1>1, <1>2, <2>3 DEF HistoryLength, IntegerOr, ValueOr
    <2>5. ToolSize(c, "history_length", 0) = v
        BY <1>2 DEF ToolSize, ValueOr
    <2> HIDE DEF v
    <2> QED
        BY <1>1, <2>4, <2>5 DEF ToolHistory
<1>3. CASE ~IsSet(c.parameters, "history_length")
    <2>1. HistoryLength(c) = 1
        BY <1>1, <1>3 DEF HistoryLength, IntegerOr, ValueOr
    <2>2. ToolSize(c, "history_length", 0) = 0
        BY <1>3 DEF ToolSize, ValueOr
    <2> QED
        BY <2>1, <2>2 DEF ToolHistory
<1> QED
    BY <1>2, <1>3

\* Lists whose items have the same dimensions have the same sum.
LEMMA DimSumsAgree ==
    ASSUME NEW n \in Nat, NEW a, NEW b, DOMAIN a = 1..n, DOMAIN b = 1..n, \A i \in 1..n : a[i].dim = b[i].dim
    PROVE  DimSum(a) = DimSum(b)
<1>1. PICK p : p[0] = 0 /\ (\A k \in 1..n : p[k] = p[k - 1] + a[k].dim) /\ DimSum(a) = p[n]
    BY DimUnfolds
<1>2. PICK q : q[0] = 0 /\ (\A k \in 1..n : q[k] = q[k - 1] + b[k].dim) /\ DimSum(b) = q[n]
    BY DimUnfolds
<1> DEFINE S == {k \in 0..n : p[k] = q[k]}
<1>3. 0 \in S
    BY <1>1, <1>2
<1>4. ASSUME NEW k \in 1..n, k - 1 \in S
      PROVE  k \in S
    <2>1. p[k - 1] = q[k - 1] /\ a[k].dim = b[k].dim
        BY <1>4
    <2>2. p[k] = q[k]
        BY <1>1, <1>2, <2>1
    <2> QED
        BY <2>2
<1> HIDE DEF S
<1>5. 0..n \subseteq S
    BY <1>3, <1>4, UpTo
<1>6. p[n] = q[n]
    BY <1>5 DEF S
<1> QED
    BY <1>1, <1>2, <1>6

LEMMA PayloadsAgree ==
    ASSUME TypesFit, ConfigRead, ToolAccepts(config),
           phase \in {"indexing", "settings", "binding", "control", "running", "crashed"}
    PROVE  /\ [i \in DOMAIN terms |-> ObsEntry(terms[i])] = ToolObsEntries(config)
           /\ [i \in DOMAIN ActionSpecs(config) |-> ActionEntry(ActionTerm(ActionSpecs(config)[i]))]
                = [i \in DOMAIN ToolActions(config) |-> ToolActionEntry(ToolActions(config)[i])]
           /\ FrameSize = ToolFrameSize(config)
<1> DEFINE n == Len(terms)
           size == ActionSize(config)
           entries == ToolObsEntries(config)
<1>1. /\ ActionTermsOk(config) /\ StringsOk(config.parameters, "observation_terms")
      /\ ObservationSpecs(config) # <<>> /\ TermsKept /\ n = Len(ObservationSpecs(config))
      /\ config \in Configurations /\ Parsing
    BY DEF ConfigRead, TypesFit, Parsing, Unparsed
<1>2. n \in Nat /\ DOMAIN terms = 1..n
    BY SeqIs DEF TypesFit
<1>3. /\ DOMAIN ObservationSpecs(config) = 1..n /\ \A i \in 1..n : IsSpec(SpecAt(i))
      /\ size \in Nat
    BY <1>1, ObservationsAre, ActionsAre DEF SpecAt
<1>4. /\ ActionSpecs(config) = ToolActions(config) /\ ObservationSpecs(config) = ToolObservations(config)
      /\ \A i \in 1..n : ToolObsTermOk(SpecAt(i), size)
    <2>1. ActionSpecs(config) = ToolActions(config) /\ ObservationSpecs(config) = ToolObservations(config)
        BY ToolFacts
    <2>2. \A i \in DOMAIN ToolObservations(config) : ToolObsTermOk(ToolObservations(config)[i], size)
        BY ToolFacts
    <2> QED
        BY <1>3, <2>1, <2>2 DEF SpecAt
<1>5. DOMAIN entries = 1..n /\ \A i \in 1..n : entries[i] = ToolObsEntry(SpecAt(i), size)
    <2>1. size = Len(ToolActions(config))
        BY <1>4 DEF ActionSize
    <2> QED
        BY <1>3, <1>4, <2>1 DEF ToolObsEntries, SpecAt
<1>6. ASSUME NEW i \in 1..n
      PROVE  ObsEntry(terms[i]) = entries[i] /\ terms[i].dim = entries[i].dim
    <2>1. ObsTermOk(SpecAt(i), config, size)
        BY <1>1, <1>2 DEF TermsKept
    <2>2. ObsEntry(Parsed(i)) = entries[i]
        <3>1. Parsed(i) = ObsTerm(SpecAt(i), config, size)
            BY DEF Parsed
        <3>2. IsSpec(SpecAt(i)) /\ ToolObsTermOk(SpecAt(i), size) /\ entries[i] = ToolObsEntry(SpecAt(i), size)
            BY <1>3, <1>4, <1>5
        <3> HIDE DEF size, entries
        <3> QED
            BY <1>3, <2>1, <3>1, <3>2, EntriesAgree
    <2>3. terms[i].id = Parsed(i).id /\ terms[i].scale = Parsed(i).scale /\ terms[i].dim = Parsed(i).dim
        <3>1. \A field \in TermFields \ {"index"} : terms[i][field] = Parsed(i)[field]
            BY <1>1, <1>2 DEF TermsKept
        <3> QED
            BY <3>1 DEF TermFields, NewTerm
    <2>4. ObsEntry(terms[i]) = ObsEntry(Parsed(i))
        BY <2>3 DEF ObsEntry
    <2>5. ObsEntry(terms[i]).dim = terms[i].dim
        BY DEF ObsEntry
    <2> QED
        BY <2>2, <2>4, <2>5
<1>7. [i \in DOMAIN terms |-> ObsEntry(terms[i])] = entries
    <2>1. [i \in DOMAIN terms |-> ObsEntry(terms[i])] = [i \in 1..n |-> entries[i]]
        BY <1>2, <1>6
    <2>2. entries = [i \in DOMAIN entries |-> entries[i]]
        BY DEF ToolObsEntries
    <2> HIDE DEF entries, n
    <2> QED
        BY <1>5, <2>1, <2>2
<1>8. ASSUME NEW spec
      PROVE  ActionEntry(ActionTerm(spec)) = ToolActionEntry(spec)
    BY DEF ActionEntry, ActionTerm, ToolActionEntry
<1>9. [i \in DOMAIN ActionSpecs(config) |-> ActionEntry(ActionTerm(ActionSpecs(config)[i]))]
        = [i \in DOMAIN ToolActions(config) |-> ToolActionEntry(ToolActions(config)[i])]
    BY <1>4, <1>8
<1>10. FrameSize = ToolFrameSize(config)
    <2> DEFINE S == {entries[i] : i \in 1..n}
               sub == SubSeq(entries, 1, n)
    <2>1. \A i \in 1..n : entries[i] \in S
        OBVIOUS
    <2> HIDE DEF entries, n, S, size
    <2>2. /\ sub \in Seq(S) /\ Len(sub) = IF 1 <= n THEN n - 1 + 1 ELSE 0
          /\ \A i \in 1..(n - 1 + 1) : sub[i] = entries[1 + i - 1]
        BY <1>2, <2>1, SubSeqProperties
    <2>3. Len(sub) = n /\ DOMAIN sub = 1..n
        BY <1>2, <2>2, LenProperties
    <2>4. \A i \in 1..n : sub[i].dim = terms[i].dim
        <3>1. TAKE i \in 1..n
        <3>2. i \in 1..(n - 1 + 1) /\ 1 + i - 1 = i
            BY <1>2
        <3> QED
            BY <1>6, <2>2, <3>2
    <2> HIDE DEF sub
    <2>5. DimSum(terms) = DimSum(sub)
        BY <1>2, <2>3, <2>4, DimSumsAgree
    <2>6. ToolFrameSize(config) = DimSum(SubSeq(entries, 1, (n + 1) - 1))
        <3>1. n = Len(ToolObservations(config))
            BY <1>1, <1>4 DEF n
        <3> QED
            BY <3>1, ToolOffsetIs DEF ToolFrameSize, entries
    <2>7. (n + 1) - 1 = n
        BY <1>2
    <2> QED
        BY <2>5, <2>6, <2>7, FrameSizeIs DEF sub
<1> QED
    BY <1>7, <1>9, <1>10

\* SameLayout: rl_layout.py hashes what obs_layout_signature() and action_layout_signature()
\* (observation.cpp:137-156) do, for every configuration that the tools accept and the bridge
\* starts with.
THEOREM LayoutSafe == Spec => []SameLayout
<1>1. Built => SameLayout
    <2> SUFFICES ASSUME Built, ToolAccepts(config)
                 PROVE  /\ phase = "indexing" =>
                            /\ LayoutPayload.observations.entries = ToolPayload(config).observations.entries
                            /\ LayoutPayload.actions = ToolPayload(config).actions
                        /\ phase \in {"settings", "binding", "control", "running", "crashed"} =>
                            LayoutPayload = ToolPayload(config)
        BY DEF SameLayout
    <2>1. TypesFit /\ ConfigRead
        BY DEF Built
    <2>2. CASE phase = "indexing"
        BY <2>1, <2>2, PayloadsAgree DEF LayoutPayload, ToolPayload
    <2>3. CASE phase \in {"settings", "binding", "control", "running", "crashed"}
        <3>1. HistoryLengthOk(config) /\ config \in Configurations
            BY <2>3 DEF Built, SettingsRead, TypesFit
        <3>2. HistoryLength(config) = ToolHistory(config)
            BY <3>1, ToolFacts, HistoryAgrees
        <3>3. /\ [i \in DOMAIN terms |-> ObsEntry(terms[i])] = ToolObsEntries(config)
              /\ [i \in DOMAIN ActionSpecs(config) |-> ActionEntry(ActionTerm(ActionSpecs(config)[i]))]
                    = [i \in DOMAIN ToolActions(config) |-> ToolActionEntry(ToolActions(config)[i])]
              /\ FrameSize = ToolFrameSize(config)
            BY <2>1, <2>3, PayloadsAgree
        <3>4. ObsSize = ToolObsSize(config)
            BY <3>2, <3>3 DEF ObsSize, ToolObsSize
        <3>5. ActionSize(config) = Len(ToolActions(config))
            BY ToolFacts DEF ActionSize
        <3>6. LayoutPayload = ToolPayload(config)
            BY <3>2, <3>3, <3>4, <3>5, Zenon DEF LayoutPayload, ToolPayload
        <3> QED
            BY <2>3, <3>6
    <2> QED
        BY <2>2, <2>3
<1> QED
    BY <1>1, BuiltAlways, PTL
=============================================================================
