-------------------------- MODULE PolicyModelProofs --------------------------
(***************************************************************************)
(* PolicyModel for every model file and all parameters.  The folds of its  *)
(* sizes come first, then the stages: what each has settled still holds    *)
(* when the process is ready, because no later one changes it.             *)
(***************************************************************************)
EXTENDS PolicyModel, SequenceTheorems, TLAPS, NaturalsInduction, WellFoundedInduction

----------------------------------------------------------------------------
(* Maxima and minima. *)

LEMMA LeastExists ==
    ASSUME NEW S \in SUBSET Nat, S # {}
    PROVE  \E m \in S : \A k \in S : m <= k
<1>1. IsWellFoundedOn({p \in Nat \X Nat : p[1] < p[2]}, Nat)
    BY NatLessThanWellFounded DEF OpToRel
<1>2. PICK m \in S : \A k \in S : ~(<<k, m>> \in {p \in Nat \X Nat : p[1] < p[2]})
    <2> DEFINE R == {p \in Nat \X Nat : p[1] < p[2]}
    <2>1. IsWellFoundedOn(R, Nat) /\ S \subseteq Nat
        BY <1>1
    <2>2. \E m \in S : \A k \in S : ~(<<k, m>> \in R)
        BY <2>1, WFMin
    <2> QED
        BY <2>2
<1>3. \A k \in S : ~(k < m)
    BY <1>2
<1> QED
    BY <1>3

LEMMA MinIs ==
    ASSUME NEW S \in SUBSET Nat, S # {}
    PROVE  Min(S) \in S /\ \A k \in S : Min(S) <= k
BY LeastExists DEF Min

LEMMA MaxIs ==
    ASSUME NEW S \in SUBSET Nat, NEW m \in S, \A x \in S : m >= x
    PROVE  Max(S) = m
<1> DEFINE P(x) == \A y \in S : x >= y
<1>1. \E x \in S : P(x)
    OBVIOUS
<1>2. Max(S) = CHOOSE x \in S : P(x)
    BY DEF Max
<1>3. Max(S) \in S /\ P(Max(S))
    <2> HIDE DEF P
    <2> QED
        BY <1>1, <1>2
<1>4. Max(S) \in S /\ Max(S) >= m
    BY <1>3
<1>5. \A x \in S : x \in Int
    OBVIOUS
<1>6. m \in Int /\ Max(S) \in Int /\ m >= Max(S)
    BY <1>4, <1>5
<1> QED
    BY <1>4, <1>6

LEMMA MaxExists ==
    ASSUME NEW n \in Nat, NEW S \in SUBSET (1..n), S # {}
    PROVE  Max(S) \in S
<1> DEFINE Bounds == {m \in Nat : \A x \in S : x <= m}
<1>1. n \in Bounds
    OBVIOUS
<1>2. PICK m \in Bounds : \A k \in Bounds : m <= k
    BY <1>1, LeastExists
<1>3. m \in S
    <2>1. SUFFICES ASSUME m \notin S PROVE FALSE
        OBVIOUS
    <2>2. \A x \in S : x \in Nat /\ x > 0 /\ x <= m /\ x # m
        BY <2>1, <1>2
    <2>3. PICK x \in S : x \in Nat /\ x > 0 /\ x <= m /\ x # m
        BY <2>2
    <2>4. m \in Nat /\ m - 1 \in Nat
        BY <2>3
    <2>5. \A y \in S : y <= m - 1
        <3>1. TAKE y \in S
        <3>2. y \in Nat /\ y <= m /\ y # m
            BY <2>2
        <3> QED
            BY <2>4, <3>2
    <2> QED
        BY <1>2, <2>3, <2>4, <2>5
<1>4. \A x \in S : m >= x
    BY <1>2
<1> QED
    BY <1>3, <1>4, MaxIs

----------------------------------------------------------------------------
(* The product of the dimensions of a tensor. *)

\* The table that defines the fold exists.
LEMMA ProductTable ==
    ASSUME NEW sizes, NEW n \in Nat
    PROVE  \E table : table = [s \in SUBSET (1..n) |->
                IF s = {} THEN 1 ELSE table[s \ {Max(s)}] * sizes[Max(s)]]
<1> DEFINE Has(k) == \E table : table = [s \in SUBSET (1..k) |->
                        IF s = {} THEN 1 ELSE table[s \ {Max(s)}] * sizes[Max(s)]]
           Bad == {k \in Nat : ~Has(k)}
<1>1. SUFFICES ASSUME Bad # {} PROVE FALSE
    OBVIOUS
<1>2. PICK m \in Bad : \A k \in Bad : m <= k
    <2> HIDE DEF Has
    <2> QED
        BY <1>1, LeastExists
<1>3. CASE m = 0
    <2> DEFINE h == [s \in SUBSET (1..0) |-> 1]
    <2>1. h = [s \in SUBSET (1..0) |-> IF s = {} THEN 1 ELSE h[s \ {Max(s)}] * sizes[Max(s)]]
        OBVIOUS
    <2>2. Has(0)
        BY <2>1
    <2> QED
        BY <1>2, <1>3, <2>2
<1>4. CASE m # 0
    <2>1. m - 1 \in Nat /\ m \in Nat /\ 1..(m - 1) \subseteq 1..m
        BY <1>4
    <2>2. Has(m - 1)
        <3> HIDE DEF Has
        <3> QED
            BY <1>2, <2>1
    <2>3. PICK g : g = [s \in SUBSET (1..(m - 1)) |->
                        IF s = {} THEN 1 ELSE g[s \ {Max(s)}] * sizes[Max(s)]]
        BY <2>2
    <2> DEFINE h == [s \in SUBSET (1..m) |-> IF m \in s THEN g[s \ {m}] * sizes[m] ELSE g[s]]
    <2>4. ASSUME NEW s \in SUBSET (1..m)
          PROVE  h[s] = IF s = {} THEN 1 ELSE h[s \ {Max(s)}] * sizes[Max(s)]
        <3>1. CASE s = {}
            BY <3>1, <2>3
        <3>2. CASE m \in s
            <4>1. Max(s) = m
                BY <3>2, <2>1, MaxIs
            <4>2. s \ {m} \in SUBSET (1..m) /\ m \notin s \ {m}
                OBVIOUS
            <4> QED
                BY <3>2, <4>1, <4>2
        <3>3. CASE s # {} /\ m \notin s
            <4>1. s \in SUBSET (1..(m - 1))
                BY <3>3, <2>1
            <4>2. Max(s) \in s
                BY <3>3, <4>1, <2>1, MaxExists
            <4>3. s \ {Max(s)} \in SUBSET (1..m) /\ m \notin s \ {Max(s)}
                BY <3>3
            <4>4. h[s] = g[s] /\ h[s \ {Max(s)}] = g[s \ {Max(s)}]
                BY <3>3, <4>3
            <4>5. g[s] = g[s \ {Max(s)}] * sizes[Max(s)]
                BY <2>3, <4>1, <3>3
            <4> QED
                BY <3>3, <4>4, <4>5
        <3> QED
            BY <3>1, <3>2, <3>3
    <2>5. h = [s \in SUBSET (1..m) |-> IF s = {} THEN 1 ELSE h[s \ {Max(s)}] * sizes[Max(s)]]
        <3> DEFINE f == [s \in SUBSET (1..m) |-> IF s = {} THEN 1 ELSE h[s \ {Max(s)}] * sizes[Max(s)]]
        <3>1. \A s \in SUBSET (1..m) : h[s] = f[s]
            <4> HIDE DEF h
            <4> QED
                BY <2>4
        <3>2. h = [s \in SUBSET (1..m) |-> h[s]]
            OBVIOUS
        <3>3. f = [s \in SUBSET (1..m) |-> f[s]]
            BY Zenon
        <3> HIDE DEF h, f
        <3>4. h = f
            BY <3>1, <3>2, <3>3
        <3> QED
            BY <3>4 DEF f
    <2>6. Has(m)
        <3> HIDE DEF h
        <3> QED
            BY <2>5
    <2> QED
        BY <1>2, <2>6
<1> QED
    BY <1>3, <1>4

\* It multiplies from the left.
LEMMA ProductUnfolds ==
    ASSUME NEW n \in Nat, NEW sizes, DOMAIN sizes = 1..n
    PROVE  \E p : p[0] = 1 /\ (\A k \in 1..n : p[k] = p[k - 1] * sizes[k]) /\ Product(sizes) = p[n]
<1> DEFINE Defines(t) == t = [s \in SUBSET (1..n) |->
                            IF s = {} THEN 1 ELSE t[s \ {Max(s)}] * sizes[Max(s)]]
           table == CHOOSE t : Defines(t)
           p == [k \in 0..n |-> table[1..k]]
<1>1. Product(sizes) = table[1..n]
    BY DEF Product, FoldLeft, MapThenFoldSet
<1>2. Defines(table)
    <2>1. \E t : Defines(t)
        BY ProductTable
    <2> HIDE DEF Defines
    <2> QED
        BY <2>1
<1> HIDE DEF table
<1>3. p[0] = 1
    <2>1. 1..0 = {}
        OBVIOUS
    <2> QED
        BY <1>2, <2>1
<1>4. ASSUME NEW k \in 1..n
      PROVE  p[k] = p[k - 1] * sizes[k]
    <2>1. 1..k \in SUBSET (1..n) /\ 1..k # {} /\ (1..k) \ {k} = 1..(k - 1)
        OBVIOUS
    <2>2. Max(1..k) = k
        BY MaxIs
    <2>3. table[1..k] = table[1..(k - 1)] * sizes[k]
        BY <1>2, <2>1, <2>2
    <2>4. k \in 0..n /\ k - 1 \in 0..n
        OBVIOUS
    <2> QED
        BY <2>3, <2>4
<1>5. Product(sizes) = p[n]
    BY <1>1
<1> HIDE DEF p
<1> QED
    BY <1>3, <1>4, <1>5

\* A size of one or more in every dimension makes one of one or more.
LEMMA ProductPositive ==
    ASSUME NEW n \in Nat, NEW sizes, DOMAIN sizes = 1..n,
           \A k \in 1..n : sizes[k] \in Int /\ sizes[k] > 0
    PROVE  Product(sizes) \in Nat /\ Product(sizes) > 0
<1>1. PICK p : p[0] = 1 /\ (\A k \in 1..n : p[k] = p[k - 1] * sizes[k]) /\ Product(sizes) = p[n]
    BY ProductUnfolds
<1> DEFINE Bad == {k \in 0..n : ~(p[k] \in Nat /\ p[k] > 0)}
<1>2. SUFFICES ASSUME Bad # {} PROVE FALSE
    BY <1>1
<1>3. PICK m \in Bad : \A k \in Bad : m <= k
    <2>1. Bad \in SUBSET Nat
        OBVIOUS
    <2> HIDE DEF Bad
    <2> QED
        BY <1>2, <2>1, LeastExists
<1>4. m # 0
    BY <1>1
<1>5. m \in 1..n /\ m - 1 \in 0..n
    BY <1>4
<1>6. p[m - 1] \in Nat /\ p[m - 1] > 0
    BY <1>3, <1>5
<1>7. sizes[m] \in Nat /\ sizes[m] > 0 /\ p[m] = p[m - 1] * sizes[m]
    BY <1>1, <1>5
<1>8. \A a, b \in Nat : a > 0 /\ b > 0 => a * b \in Nat /\ a * b > 0
    OBVIOUS
<1> QED
    BY <1>6, <1>7, <1>8

LEMMA ProductOfOne ==
    ASSUME NEW s, DOMAIN s = 1..1, s[1] \in Int
    PROVE  Product(s) = s[1]
<1>1. PICK p : p[0] = 1 /\ (\A k \in 1..1 : p[k] = p[k - 1] * s[k]) /\ Product(s) = p[1]
    BY ProductUnfolds
<1>2. p[1] = 1 * s[1]
    BY <1>1
<1> QED
    BY <1>1, <1>2

LEMMA ProductOfTwo ==
    ASSUME NEW s, DOMAIN s = 1..2, s[1] \in Int, s[2] \in Int
    PROVE  Product(s) = s[1] * s[2]
<1>1. PICK p : p[0] = 1 /\ (\A k \in 1..2 : p[k] = p[k - 1] * s[k]) /\ Product(s) = p[2]
    BY ProductUnfolds
<1>2. p[1] = 1 * s[1] /\ p[2] = p[1] * s[2]
    BY <1>1
<1> QED
    BY <1>1, <1>2

LEMMA ProductOfThree ==
    ASSUME NEW s, DOMAIN s = 1..3, s[1] \in Int, s[2] \in Int, s[3] \in Int
    PROVE  Product(s) = s[1] * s[2] * s[3]
<1>1. PICK p : p[0] = 1 /\ (\A k \in 1..3 : p[k] = p[k - 1] * s[k]) /\ Product(s) = p[3]
    BY ProductUnfolds
<1>2. p[1] = 1 * s[1] /\ p[2] = p[1] * s[2] /\ p[3] = p[2] * s[3]
    BY <1>1
<1> QED
    BY <1>1, <1>2

----------------------------------------------------------------------------
(* The sum of the dimensions of a layout. *)

\* The table of this fold.
LEMMA SumTable ==
    ASSUME NEW sizes, NEW n \in Nat
    PROVE  \E table : table = [s \in SUBSET (1..n) |->
                IF s = {} THEN 0 ELSE table[s \ {Max(s)}] + sizes[Max(s)]]
<1> DEFINE Has(k) == \E table : table = [s \in SUBSET (1..k) |->
                        IF s = {} THEN 0 ELSE table[s \ {Max(s)}] + sizes[Max(s)]]
           Bad == {k \in Nat : ~Has(k)}
<1>1. SUFFICES ASSUME Bad # {} PROVE FALSE
    OBVIOUS
<1>2. PICK m \in Bad : \A k \in Bad : m <= k
    <2> HIDE DEF Has
    <2> QED
        BY <1>1, LeastExists
<1>3. CASE m = 0
    <2> DEFINE h == [s \in SUBSET (1..0) |-> 0]
    <2>1. h = [s \in SUBSET (1..0) |-> IF s = {} THEN 0 ELSE h[s \ {Max(s)}] + sizes[Max(s)]]
        OBVIOUS
    <2>2. Has(0)
        BY <2>1
    <2> QED
        BY <1>2, <1>3, <2>2
<1>4. CASE m # 0
    <2>1. m - 1 \in Nat /\ m \in Nat /\ 1..(m - 1) \subseteq 1..m
        BY <1>4
    <2>2. Has(m - 1)
        <3> HIDE DEF Has
        <3> QED
            BY <1>2, <2>1
    <2>3. PICK g : g = [s \in SUBSET (1..(m - 1)) |->
                        IF s = {} THEN 0 ELSE g[s \ {Max(s)}] + sizes[Max(s)]]
        BY <2>2
    <2> DEFINE h == [s \in SUBSET (1..m) |-> IF m \in s THEN g[s \ {m}] + sizes[m] ELSE g[s]]
    <2>4. ASSUME NEW s \in SUBSET (1..m)
          PROVE  h[s] = IF s = {} THEN 0 ELSE h[s \ {Max(s)}] + sizes[Max(s)]
        <3>1. CASE s = {}
            BY <3>1, <2>3
        <3>2. CASE m \in s
            <4>1. Max(s) = m
                BY <3>2, <2>1, MaxIs
            <4>2. s \ {m} \in SUBSET (1..m) /\ m \notin s \ {m}
                OBVIOUS
            <4> QED
                BY <3>2, <4>1, <4>2
        <3>3. CASE s # {} /\ m \notin s
            <4>1. s \in SUBSET (1..(m - 1))
                BY <3>3, <2>1
            <4>2. Max(s) \in s
                BY <3>3, <4>1, <2>1, MaxExists
            <4>3. s \ {Max(s)} \in SUBSET (1..m) /\ m \notin s \ {Max(s)}
                BY <3>3
            <4>4. h[s] = g[s] /\ h[s \ {Max(s)}] = g[s \ {Max(s)}]
                BY <3>3, <4>3
            <4>5. g[s] = g[s \ {Max(s)}] + sizes[Max(s)]
                BY <2>3, <4>1, <3>3
            <4> QED
                BY <3>3, <4>4, <4>5
        <3> QED
            BY <3>1, <3>2, <3>3
    <2>5. h = [s \in SUBSET (1..m) |-> IF s = {} THEN 0 ELSE h[s \ {Max(s)}] + sizes[Max(s)]]
        <3> DEFINE f == [s \in SUBSET (1..m) |-> IF s = {} THEN 0 ELSE h[s \ {Max(s)}] + sizes[Max(s)]]
        <3>1. \A s \in SUBSET (1..m) : h[s] = f[s]
            <4> HIDE DEF h
            <4> QED
                BY <2>4
        <3>2. h = [s \in SUBSET (1..m) |-> h[s]]
            OBVIOUS
        <3>3. f = [s \in SUBSET (1..m) |-> f[s]]
            BY Zenon
        <3> HIDE DEF h, f
        <3>4. h = f
            BY <3>1, <3>2, <3>3
        <3> QED
            BY <3>4 DEF f
    <2>6. Has(m)
        <3> HIDE DEF h
        <3> QED
            BY <2>5
    <2> QED
        BY <1>2, <2>6
<1> QED
    BY <1>3, <1>4

\* It adds from the left.
LEMMA SumUnfolds ==
    ASSUME NEW n \in Nat, NEW sizes, DOMAIN sizes = 1..n
    PROVE  \E p : p[0] = 0 /\ (\A k \in 1..n : p[k] = p[k - 1] + sizes[k]) /\ Sum(sizes) = p[n]
<1> DEFINE Defines(t) == t = [s \in SUBSET (1..n) |->
                            IF s = {} THEN 0 ELSE t[s \ {Max(s)}] + sizes[Max(s)]]
           table == CHOOSE t : Defines(t)
           p == [k \in 0..n |-> table[1..k]]
<1>1. Sum(sizes) = table[1..n]
    BY DEF Sum, FoldLeft, MapThenFoldSet
<1>2. Defines(table)
    <2>1. \E t : Defines(t)
        BY SumTable
    <2> HIDE DEF Defines
    <2> QED
        BY <2>1
<1> HIDE DEF table
<1>3. p[0] = 0
    <2>1. 1..0 = {}
        OBVIOUS
    <2> QED
        BY <1>2, <2>1
<1>4. ASSUME NEW k \in 1..n
      PROVE  p[k] = p[k - 1] + sizes[k]
    <2>1. 1..k \in SUBSET (1..n) /\ 1..k # {} /\ (1..k) \ {k} = 1..(k - 1)
        OBVIOUS
    <2>2. Max(1..k) = k
        BY MaxIs
    <2>3. table[1..k] = table[1..(k - 1)] + sizes[k]
        BY <1>2, <2>1, <2>2
    <2>4. k \in 0..n /\ k - 1 \in 0..n
        OBVIOUS
    <2> QED
        BY <2>3, <2>4
<1>5. Sum(sizes) = p[n]
    BY <1>1
<1> HIDE DEF p
<1> QED
    BY <1>3, <1>4, <1>5

LEMMA SumPositive ==
    ASSUME NEW n \in Nat, n > 0, NEW sizes, DOMAIN sizes = 1..n,
           \A k \in 1..n : sizes[k] \in Int /\ sizes[k] > 0
    PROVE  Sum(sizes) \in Nat /\ Sum(sizes) > 0
<1>1. PICK p : p[0] = 0 /\ (\A k \in 1..n : p[k] = p[k - 1] + sizes[k]) /\ Sum(sizes) = p[n]
    BY SumUnfolds
<1> DEFINE Bad == {k \in 0..n : ~(p[k] \in Nat /\ p[k] >= k)}
<1>2. SUFFICES ASSUME Bad # {} PROVE FALSE
    BY <1>1
<1>3. PICK m \in Bad : \A k \in Bad : m <= k
    <2>1. Bad \in SUBSET Nat
        OBVIOUS
    <2> HIDE DEF Bad
    <2> QED
        BY <1>2, <2>1, LeastExists
<1>4. m # 0
    BY <1>1
<1>5. m \in 1..n /\ m - 1 \in 0..n
    BY <1>4
<1>6. p[m - 1] \in Nat /\ p[m - 1] >= m - 1
    BY <1>3, <1>5
<1>7. sizes[m] \in Nat /\ sizes[m] > 0 /\ p[m] = p[m - 1] + sizes[m]
    BY <1>1, <1>5
<1> QED
    BY <1>5, <1>6, <1>7

----------------------------------------------------------------------------
(* The first size that is given. *)

LEMMA FirstOfTwo ==
    ASSUME NEW a, NEW b
    PROVE  FirstOf(<<a, b>>) = IF a # 0 THEN a ELSE b
<1> DEFINE s == <<a, b>>
           G == {i \in DOMAIN s : s[i] # 0}
<1>1. DOMAIN s = 1..2 /\ s[1] = a /\ s[2] = b
    OBVIOUS
<1>2. FirstOf(s) = IF G = {} THEN 0 ELSE s[Min(G)]
    BY DEF FirstOf
<1> HIDE DEF s
<1>3. G \in SUBSET Nat /\ (G # {} => Min(G) \in G /\ \A k \in G : Min(G) <= k)
    BY <1>1, MinIs
<1> QED
    BY <1>1, <1>2, <1>3 DEF s

LEMMA FirstOfThree ==
    ASSUME NEW a, NEW b, NEW c
    PROVE  FirstOf(<<a, b, c>>) = IF a # 0 THEN a ELSE IF b # 0 THEN b ELSE c
<1> DEFINE s == <<a, b, c>>
           G == {i \in DOMAIN s : s[i] # 0}
<1>1. DOMAIN s = 1..3 /\ s[1] = a /\ s[2] = b /\ s[3] = c
    OBVIOUS
<1>2. FirstOf(s) = IF G = {} THEN 0 ELSE s[Min(G)]
    BY DEF FirstOf
<1> HIDE DEF s
<1>3. G \in SUBSET Nat /\ (G # {} => Min(G) \in G /\ \A k \in G : Min(G) <= k)
    BY <1>1, MinIs
<1> QED
    BY <1>1, <1>2, <1>3 DEF s

----------------------------------------------------------------------------
(* The inductive invariant: what each stage leaves for those after it. *)

NotRead == {"parameters", "refused"}
NotChecked == NotRead \cup {"tensors"}
NotDeclared == NotChecked \cup {"type", "declared"}
NotShaped == NotDeclared \cup {"input"}
NotBound == NotShaped \cup {"constants"}
NotSized == NotBound \cup {"output"}
NotNormalized == NotSized \cup {"identity", "normalization"}
NotReady == NotNormalized \cup {"topics"}

FromCase ==
    /\ \E cases \in Families : \E case \in cases : file = case.file /\ given = case.given
    /\ DOMAIN model = DOMAIN Unsettled
    /\ phase \in NotReady \cup {"ready"}

ParametersRead ==
    phase \notin NotRead => params = Config /\ \A name \in SizeParameters : PositiveOk(name)

TensorsFit ==
    /\ Primary \in 1..Len(file.inputs) /\ Len(file.outputs) = 1
    /\ file.inputs[Primary].element = "float"
    /\ Rank \in 1..3 /\ BatchOk(Input)
    /\ Len(Output) \in 1..3 /\ BatchOk(Output)

TensorsChecked == phase \notin NotChecked => TensorsFit

LayoutGiven == LayoutHistory \in Nat /\ LayoutHistory > 0 /\ LayoutFrame \in Nat /\ LayoutFrame > 0

ObservationSettled ==
    /\ model.observation \in Nat
    /\ params.observation_size # 0 => model.observation = params.observation_size
    /\ HasLayout => LayoutGiven /\ model.observation = LayoutHistory * LayoutFrame

SplitSettled ==
    /\ model.sequence \in Nat /\ model.feature \in Nat
    /\ HasLayout => model.sequence = LayoutHistory /\ model.feature = LayoutFrame

WindowDeclared ==
    /\ phase \notin NotDeclared => ObservationSettled
    /\ phase = "input" => SplitSettled

ShapeSettled ==
    /\ model.sequence \in Nat /\ model.sequence > 0 /\ model.feature \in Nat /\ model.feature > 0
    /\ model.shape = CASE Rank = 1 -> <<model.feature>>
                       [] Rank = 2 -> <<1, model.feature>>
                       [] Rank = 3 -> <<1, model.sequence, model.feature>>
    /\ Rank < 3 => model.sequence = 1
    /\ Agree(model.sequence * model.feature, model.observation)
    /\ \A d \in 1..Rank : Input[d] > 0 => model.shape[d] = Input[d]
    /\ Rank = 3 /\ HasLayout => model.sequence = LayoutHistory /\ model.feature = LayoutFrame

InputShaped == phase \notin NotShaped => ShapeSettled

ShapeOfConstant(shape) ==
    Len(shape) \in 1..3 /\ BatchOk(shape) /\ \A i \in DOMAIN Unbatched(shape) : Unbatched(shape)[i] > 0

ConstantsNamed ==
    /\ DOMAIN given.extra_inputs = {file.inputs[Others[k]].name : k \in DOMAIN Others}
    /\ \A k \in DOMAIN Others : ShapeOfConstant(file.inputs[Others[k]].shape)

ConstantsMade == [k \in DOMAIN Others |-> Constant(file.inputs[Others[k]])]
Slots == [i \in DOMAIN file.inputs |-> IF i = Primary THEN 0 ELSE IF i < Primary THEN i ELSE i - 1]

ConstantsSettled == ConstantsNamed /\ model.constants = ConstantsMade /\ model.constant_slot = Slots

ConstantsBound == phase \notin NotBound => ConstantsSettled

OutputSettled ==
    /\ model.output_size \in Nat /\ model.output_size > 0
    /\ Agree(params.action_size, model.output_size)

OutputSized == phase \notin NotSized => OutputSettled

NormalizationSettled ==
    model.mean # <<>> =>
        /\ Len(model.mean) = InputSize /\ Len(model.deviation) = InputSize
        /\ \A i \in 1..InputSize : model.deviation[i] # 0

NormalizationLoaded == phase \notin NotNormalized => NormalizationSettled

TensorsGiven == inference.tensors # <<>> => phase = "ready" /\ inference.tensors = SessionTensors

Settled ==
    /\ FromCase /\ ParametersRead /\ TensorsChecked /\ WindowDeclared /\ InputShaped
    /\ ConstantsBound /\ OutputSized /\ NormalizationLoaded /\ TensorsGiven

----------------------------------------------------------------------------
(* What a step can move. *)

LEMMA CaseFacts ==
    ASSUME FromCase
    PROVE  IsFile(file) /\ \A name \in DOMAIN given.parameters : IsParameter(given.parameters[name])
BY CasesAssumption DEF FromCase

\* The stages follow one another.
LEMMA StageSteps ==
    ASSUME FromCase, Next
    PROVE  /\ phase = "parameters" => ReadParameters
           /\ phase = "tensors" => CheckTensors
           /\ phase = "type" => SettleType
           /\ phase = "declared" => SettleDeclared
           /\ phase = "input" => SettleInput
           /\ phase = "constants" => BindConstants
           /\ phase = "output" => SettleOutput
           /\ phase = "identity" => SettleIdentity
           /\ phase = "normalization" => LoadNormalization
           /\ phase = "topics" => SetUpTopics
           /\ phase = "ready" => Infer
           /\ phase # "refused"
<1> USE DEF Stage
<1>1. CASE ReadParameters
    BY <1>1 DEF ReadParameters
<1>2. CASE CheckTensors
    BY <1>2 DEF CheckTensors
<1>3. CASE SettleType
    BY <1>3 DEF SettleType
<1>4. CASE SettleDeclared
    BY <1>4 DEF SettleDeclared
<1>5. CASE SettleInput
    BY <1>5 DEF SettleInput, SettleFlatInput, SettleSequenceInput
<1>6. CASE BindConstants
    BY <1>6 DEF BindConstants
<1>7. CASE SettleOutput
    BY <1>7 DEF SettleOutput
<1>8. CASE SettleIdentity
    BY <1>8 DEF SettleIdentity
<1>9. CASE LoadNormalization
    BY <1>9 DEF LoadNormalization
<1>10. CASE SetUpTopics
    BY <1>10 DEF SetUpTopics
<1>11. CASE Infer
    BY <1>11 DEF Infer
<1> QED
    BY <1>1, <1>2, <1>3, <1>4, <1>5, <1>6, <1>7, <1>8, <1>9, <1>10, <1>11 DEF Next

\* A stage leads to the next one, and moves what it settles.
LEMMA StageMoves ==
    ASSUME FromCase, [Next]_vars
    PROVE  /\ file' = file /\ given' = given /\ FromCase'
           /\ phase' \in NotRead \/ phase = "parameters" \/ (phase \notin NotRead /\ params' = params)
           /\ phase' \in NotChecked \/ phase = "tensors" \/ phase \notin NotChecked
           /\ \/ phase' \in NotDeclared \/ phase = "declared"
              \/ phase \notin NotDeclared /\ model'.observation = model.observation
           /\ phase' = "input" => phase = "declared" \/ (phase = "input" /\ model' = model)
           /\ \/ phase' \in NotShaped \/ phase = "input"
              \/ /\ phase \notin NotShaped /\ model'.sequence = model.sequence
                 /\ model'.feature = model.feature /\ model'.shape = model.shape
           /\ \/ phase' \in NotBound \/ phase = "constants"
              \/ /\ phase \notin NotBound /\ model'.constants = model.constants
                 /\ model'.constant_slot = model.constant_slot
           /\ \/ phase' \in NotSized \/ phase = "output"
              \/ phase \notin NotSized /\ model'.output_size = model.output_size
           /\ \/ phase' \in NotNormalized \/ phase = "normalization"
              \/ phase \notin NotNormalized /\ model'.mean = model.mean /\ model'.deviation = model.deviation
           /\ phase # "ready" => inference' = inference
           /\ phase = "ready" => phase' = phase /\ model' = model /\ params' = params
<1> USE DEF NotRead, NotChecked, NotDeclared, NotShaped, NotBound, NotSized, NotNormalized, NotReady
<1>1. CASE UNCHANGED vars
    BY <1>1 DEF vars, FromCase
<1>2. CASE Next
    <2> DEFINE To(stage) == phase' \in {stage, "refused"} /\ UNCHANGED <<file, given, params, inference>>
    <2>1. DOMAIN model = {"type", "sequence", "feature", "observation", "shape", "constants",
                          "constant_slot", "output_size", "layout_hash", "mean", "deviation",
                          "obs_clip", "action_clip"}
        BY DEF FromCase, Unsettled
    <2>2. CASE phase = "parameters"
        <3>1. phase' \in {"tensors", "refused"} /\ UNCHANGED <<file, given, model, inference>>
            BY <1>2, <2>2, StageSteps DEF ReadParameters
        <3>4. FromCase'
            BY <3>1 DEF FromCase
        <3> QED
            BY <2>2, <3>1, <3>4
    <2>3. CASE phase = "tensors"
        <3>1. To("type")
            BY <1>2, <2>3, StageSteps DEF CheckTensors, Stage
        <3>2. model' = model
            BY <1>2, <2>3, StageSteps DEF CheckTensors, Stage
        <3>3. DOMAIN model' = DOMAIN model /\ model'.observation = model.observation /\ model'.sequence = model.sequence /\ model'.feature = model.feature /\ model'.shape = model.shape /\ model'.constants = model.constants /\ model'.constant_slot = model.constant_slot /\ model'.output_size = model.output_size /\ model'.mean = model.mean /\ model'.deviation = model.deviation
            BY <2>1, <3>2
        <3>4. FromCase'
            BY <3>1, <3>3 DEF FromCase
        <3> QED
            BY <2>3, <3>1, <3>3, <3>4
    <2>4. CASE phase = "type"
        <3>1. To("declared")
            BY <1>2, <2>4, StageSteps DEF SettleType, Stage
        <3>2. model' = model \/ \E v0 : model' = [model EXCEPT !.type = v0]
            BY <1>2, <2>4, StageSteps DEF SettleType, Stage
        <3>3. DOMAIN model' = DOMAIN model /\ model'.observation = model.observation /\ model'.sequence = model.sequence /\ model'.feature = model.feature /\ model'.shape = model.shape /\ model'.constants = model.constants /\ model'.constant_slot = model.constant_slot /\ model'.output_size = model.output_size /\ model'.mean = model.mean /\ model'.deviation = model.deviation
            BY <2>1, <3>2
        <3>4. FromCase'
            BY <3>1, <3>3 DEF FromCase
        <3> QED
            BY <2>4, <3>1, <3>3, <3>4
    <2>5. CASE phase = "declared"
        <3>1. To("input")
            BY <1>2, <2>5, StageSteps DEF SettleDeclared, Stage
        <3>2. model' = model \/ \E v0, v1, v2 : model' = [model EXCEPT !.sequence = v0, !.feature = v1, !.observation = v2]
            BY <1>2, <2>5, StageSteps DEF SettleDeclared, Stage
        <3>3. DOMAIN model' = DOMAIN model /\ model'.shape = model.shape /\ model'.constants = model.constants /\ model'.constant_slot = model.constant_slot /\ model'.output_size = model.output_size /\ model'.mean = model.mean /\ model'.deviation = model.deviation
            BY <2>1, <3>2
        <3>4. FromCase'
            BY <3>1, <3>3 DEF FromCase
        <3> QED
            BY <2>5, <3>1, <3>3, <3>4
    <2>6. CASE phase = "input"
        <3>1. To("constants")
            BY <1>2, <2>6, StageSteps DEF SettleInput, SettleFlatInput, SettleSequenceInput, Stage
        <3>2. model' = model \/ \E v0, v1, v2 : model' = [model EXCEPT !.sequence = v0, !.feature = v1, !.shape = v2]
            BY <1>2, <2>6, StageSteps DEF SettleInput, SettleFlatInput, SettleSequenceInput, Stage
        <3>3. DOMAIN model' = DOMAIN model /\ model'.observation = model.observation /\ model'.constants = model.constants /\ model'.constant_slot = model.constant_slot /\ model'.output_size = model.output_size /\ model'.mean = model.mean /\ model'.deviation = model.deviation
            BY <2>1, <3>2
        <3>4. FromCase'
            BY <3>1, <3>3 DEF FromCase
        <3> QED
            BY <2>6, <3>1, <3>3, <3>4
    <2>7. CASE phase = "constants"
        <3>1. To("output")
            BY <1>2, <2>7, StageSteps DEF BindConstants, Stage
        <3>2. model' = model \/ \E v0, v1 : model' = [model EXCEPT !.constants = v0, !.constant_slot = v1]
            BY <1>2, <2>7, StageSteps DEF BindConstants, Stage
        <3>3. DOMAIN model' = DOMAIN model /\ model'.observation = model.observation /\ model'.sequence = model.sequence /\ model'.feature = model.feature /\ model'.shape = model.shape /\ model'.output_size = model.output_size /\ model'.mean = model.mean /\ model'.deviation = model.deviation
            BY <2>1, <3>2
        <3>4. FromCase'
            BY <3>1, <3>3 DEF FromCase
        <3> QED
            BY <2>7, <3>1, <3>3, <3>4
    <2>8. CASE phase = "output"
        <3>1. To("identity")
            BY <1>2, <2>8, StageSteps DEF SettleOutput, Stage
        <3>2. model' = model \/ \E v0 : model' = [model EXCEPT !.output_size = v0]
            BY <1>2, <2>8, StageSteps DEF SettleOutput, Stage
        <3>3. DOMAIN model' = DOMAIN model /\ model'.observation = model.observation /\ model'.sequence = model.sequence /\ model'.feature = model.feature /\ model'.shape = model.shape /\ model'.constants = model.constants /\ model'.constant_slot = model.constant_slot /\ model'.mean = model.mean /\ model'.deviation = model.deviation
            BY <2>1, <3>2
        <3>4. FromCase'
            BY <3>1, <3>3 DEF FromCase
        <3> QED
            BY <2>8, <3>1, <3>3, <3>4
    <2>9. CASE phase = "identity"
        <3>1. To("normalization")
            BY <1>2, <2>9, StageSteps DEF SettleIdentity, Stage
        <3>2. model' = model \/ \E v0 : model' = [model EXCEPT !.layout_hash = v0]
            BY <1>2, <2>9, StageSteps DEF SettleIdentity, Stage
        <3>3. DOMAIN model' = DOMAIN model /\ model'.observation = model.observation /\ model'.sequence = model.sequence /\ model'.feature = model.feature /\ model'.shape = model.shape /\ model'.constants = model.constants /\ model'.constant_slot = model.constant_slot /\ model'.output_size = model.output_size /\ model'.mean = model.mean /\ model'.deviation = model.deviation
            BY <2>1, <3>2
        <3>4. FromCase'
            BY <3>1, <3>3 DEF FromCase
        <3> QED
            BY <2>9, <3>1, <3>3, <3>4
    <2>10. CASE phase = "normalization"
        <3>1. To("topics")
            BY <1>2, <2>10, StageSteps DEF LoadNormalization, Stage
        <3> DEFINE mean == IF params.normalization_from_metadata THEN Numbers(file.mean) ELSE <<>>
                   deviation == IF params.normalization_from_metadata THEN Numbers(file.deviation) ELSE <<>>
        <3>2. model' = model \/ model' = [model EXCEPT !.mean = mean, !.deviation = deviation,
                                         !.obs_clip = ClipOf(params.obs_clip, file.obs_clip),
                                         !.action_clip = ClipOf(params.action_clip, file.action_clip)]
            BY <1>2, <2>10, StageSteps DEF LoadNormalization, Stage
        <3>3. DOMAIN model' = DOMAIN model /\ model'.observation = model.observation /\ model'.sequence = model.sequence /\ model'.feature = model.feature /\ model'.shape = model.shape /\ model'.constants = model.constants /\ model'.constant_slot = model.constant_slot /\ model'.output_size = model.output_size
            BY <2>1, <3>2
        <3>4. FromCase'
            BY <3>1, <3>3 DEF FromCase
        <3> QED
            BY <2>10, <3>1, <3>3, <3>4
    <2>11. CASE phase = "topics"
        <3>1. To("ready")
            BY <1>2, <2>11, StageSteps DEF SetUpTopics, Stage
        <3>2. model' = model
            BY <1>2, <2>11, StageSteps DEF SetUpTopics, Stage
        <3>3. DOMAIN model' = DOMAIN model /\ model'.observation = model.observation /\ model'.sequence = model.sequence /\ model'.feature = model.feature /\ model'.shape = model.shape /\ model'.constants = model.constants /\ model'.constant_slot = model.constant_slot /\ model'.output_size = model.output_size /\ model'.mean = model.mean /\ model'.deviation = model.deviation
            BY <2>1, <3>2
        <3>4. FromCase'
            BY <3>1, <3>3 DEF FromCase
        <3> QED
            BY <2>11, <3>1, <3>3, <3>4
    <2>12. CASE phase = "ready"
        BY <1>2, <2>12, StageSteps DEF Infer, FromCase
    <2>13. CASE phase = "refused"
        BY <1>2, <2>13, StageSteps
    <2> QED
        BY <2>2, <2>3, <2>4, <2>5, <2>6, <2>7, <2>8, <2>9, <2>10, <2>11, <2>12, <2>13 DEF FromCase
<1> QED
    BY <1>1, <1>2

\* What the file and the parameters say.
LEMMA FileStays ==
    ASSUME file' = file
    PROVE  /\ HasLayout' = HasLayout /\ LayoutHistory' = LayoutHistory /\ LayoutFrame' = LayoutFrame
           /\ Output' = Output
BY DEF HasLayout, LayoutHistory, LayoutFrame, Output

LEMMA TensorsStay ==
    ASSUME file' = file, params' = params
    PROVE  Primary' = Primary /\ Input' = Input /\ Rank' = Rank /\ Others' = Others
<1>1. Primary' = Primary
    BY DEF Primary, SelectInSeq
<1> QED
    BY <1>1 DEF Input, Rank, Others

----------------------------------------------------------------------------
(* The parameters and the tensors. *)

LEMMA ParametersReadStep ==
    ASSUME FromCase, ParametersRead, [Next]_vars
    PROVE  ParametersRead'
<1>1. given' = given
    BY StageMoves
<1>2. Config' = Config /\ \A name : PositiveOk(name)' <=> PositiveOk(name)
    BY <1>1 DEF Config, ClipParameter, PositiveOk
<1>3. CASE phase = "parameters" /\ Next
    <2>1. ReadParameters
        BY <1>3, StageSteps
    <2>2. phase' = "refused" \/ (params' = Config /\ \A name \in SizeParameters : PositiveOk(name))
        BY <2>1 DEF ReadParameters
    <2> QED
        BY <1>2, <2>2 DEF ParametersRead, NotRead
<1>4. CASE phase # "parameters" \/ UNCHANGED vars
    <2>1. phase' \in NotRead \/ (phase \notin NotRead /\ params' = params)
        BY <1>4, StageMoves DEF vars, NotRead
    <2> QED
        BY <1>2, <2>1 DEF ParametersRead
<1> QED
    BY <1>3, <1>4

\* A size that is given is the positive integer it is taken for.
LEMMA SizeGiven ==
    ASSUME FromCase, NEW name, PositiveOk(name)
    PROVE  /\ IntegerOr(given.parameters, name, 0) \in Nat
           /\ IsSet(given.parameters, name) =>
                /\ IntegerOr(given.parameters, name, 0) > 0
                /\ given.parameters[name][2] = IntegerOr(given.parameters, name, 0)
           /\ ~IsSet(given.parameters, name) => IntegerOr(given.parameters, name, 0) = 0
<1> DEFINE parameter == given.parameters[name]
<1>1. CASE ~IsSet(given.parameters, name)
    BY <1>1, NumbersAssumption DEF IntegerOr, ValueOr
<1>2. CASE IsSet(given.parameters, name)
    <2>1. IsParameter(parameter) /\ parameter[1] \in {"integer", "double"}
        BY <1>2, CaseFacts DEF IsSet, PositiveOk, IntegerOk, NumberParameterOk, OfType
    <2>2. parameter[2] \in Int \cup {Infinite, NaN, Fraction}
        BY <2>1 DEF IsParameter
    <2>3. parameter[2] \notin {Infinite, Fraction}
        BY <1>2 DEF PositiveOk, IntegerOk, ValueOr
    <2>4. IF parameter[2] = NaN THEN Smallest >= 1 ELSE parameter[2] >= 1
        BY <1>2 DEF PositiveOk, IntegerOr, ValueOr
    <2>5. parameter[2] # NaN
        BY <2>4 DEF Smallest
    <2>6. parameter[2] \in Nat /\ parameter[2] > 0
        BY <2>2, <2>3, <2>4, <2>5
    <2>7. IntegerOr(given.parameters, name, 0) = parameter[2]
        BY <1>2, <2>5 DEF IntegerOr, ValueOr
    <2> QED
        BY <1>2, <2>6, <2>7
<1> QED
    BY <1>1, <1>2

\* The sizes of the configuration.
LEMMA ConfiguredSizes ==
    ASSUME FromCase, ParametersRead, phase \notin NotRead
    PROVE  /\ params.sequence_length \in Nat /\ params.feature_size \in Nat
           /\ params.observation_size = IntegerOr(given.parameters, "rl_obs_size", 0)
           /\ params.action_size = IntegerOr(given.parameters, "rl_action_size", 0)
           /\ params.observation_size \in Nat /\ params.action_size \in Nat
           /\ params.extra = given.extra_inputs
           /\ PositiveOk("rl_obs_size") /\ PositiveOk("rl_action_size")
<1>1. \A name \in SizeParameters : PositiveOk(name) /\ IntegerOr(given.parameters, name, 0) \in Nat
    BY SizeGiven DEF ParametersRead
<1>2. params = Config
    BY DEF ParametersRead
<1>3. /\ params.sequence_length = IntegerOr(given.parameters, "sequence_length", 0)
      /\ params.feature_size = IntegerOr(given.parameters, "feature_size", 0)
      /\ params.observation_size = IntegerOr(given.parameters, "rl_obs_size", 0)
      /\ params.action_size = IntegerOr(given.parameters, "rl_action_size", 0)
      /\ params.extra = given.extra_inputs
    BY <1>2 DEF Config
<1> QED
    BY <1>1, <1>3 DEF SizeParameters

LEMMA PrimaryIs ==
    ASSUME Primary # 0, Len(file.inputs) \in Nat
    PROVE  Primary \in 1..Len(file.inputs)
<1> DEFINE I == {i \in 1..Len(file.inputs) : file.inputs[i].name = params.input_name}
<1>1. Primary = IF I # {} THEN Min(I) ELSE 0
    BY DEF Primary, SelectInSeq
<1>2. I \in SUBSET Nat
    OBVIOUS
<1>3. I # {} => Min(I) \in I
    <2> HIDE DEF I
    <2> QED
        BY <1>2, MinIs
<1> QED
    BY <1>1, <1>3

LEMMA TensorsCheckedStep ==
    ASSUME FromCase, ParametersRead, TensorsChecked, [Next]_vars
    PROVE  TensorsChecked'
<1>1. file' = file /\ given' = given
    BY StageMoves
<1>2. CASE phase = "tensors" /\ Next /\ phase' \notin NotChecked
    <2>1. CheckTensors
        BY <1>2, StageSteps
    <2>2. /\ params' = params
          /\ Len(file.outputs) = 1 /\ Primary # 0
          /\ {file.inputs[Primary].element, file.outputs[1].element} = {"float"}
          /\ Rank \in 1..3 /\ BatchOk(Input)
          /\ Len(Output) \in 1..3 /\ BatchOk(Output)
        BY <1>2, <2>1 DEF CheckTensors, Stage, NotChecked, NotRead
    <2>3. Primary \in 1..Len(file.inputs)
        BY <2>2, PrimaryIs, CaseFacts DEF IsFile
    <2>4. TensorsFit
        BY <2>2, <2>3 DEF TensorsFit
    <2> QED
        BY <1>1, <2>2, <2>4, FileStays, TensorsStay DEF TensorsChecked, TensorsFit, BatchOk
<1>3. CASE phase # "tensors" \/ UNCHANGED vars \/ phase' \in NotChecked
    <2>1. phase' \in NotChecked \/ (phase \notin NotChecked /\ params' = params)
        BY <1>3, StageMoves DEF vars, NotRead, NotChecked
    <2> QED
        BY <1>1, <2>1, FileStays, TensorsStay DEF TensorsChecked, TensorsFit, BatchOk
<1> QED
    BY <1>2, <1>3

----------------------------------------------------------------------------
(* The shape of the input. *)

LEMMA LayoutSizes ==
    ASSUME FromCase, LayoutWellFormed
    PROVE  /\ LayoutHistory \in Nat /\ LayoutFrame \in Nat /\ LayoutHistory * LayoutFrame \in Nat
           /\ HasLayout => LayoutGiven /\ LayoutHistory * LayoutFrame > 0
<1>1. CASE ~HasLayout
    BY <1>1 DEF LayoutHistory, LayoutFrame
<1>2. CASE HasLayout
    <2>1. file.layout \in [v3 : BOOLEAN, history : Int, dims : Seq(Int)]
        BY <1>2, CaseFacts DEF IsFile, HasLayout
    <2> DEFINE dims == file.layout.dims
               n == Len(dims)
    <2>2. n \in Nat /\ DOMAIN dims = 1..n /\ \A k \in 1..n : dims[k] \in Int
        BY <2>1
    <2>3. n > 0 /\ (\A k \in 1..n : dims[k] > 0) /\ file.layout.history > 0 /\ file.layout.history \in Int
        BY <1>2, <2>1, <2>2 DEF LayoutWellFormed
    <2>4. Sum(dims) \in Nat /\ Sum(dims) > 0
        <3> HIDE DEF dims, n
        <3> QED
            BY <2>2, <2>3, SumPositive
    <2>5. LayoutGiven
        BY <1>2, <2>3, <2>4 DEF LayoutGiven, LayoutHistory, LayoutFrame
    <2>6. \A a, b \in Nat : a > 0 /\ b > 0 => a * b \in Nat /\ a * b > 0
        OBVIOUS
    <2> QED
        BY <2>5, <2>6 DEF LayoutGiven
<1> QED
    BY <1>1, <1>2

LEMMA WindowDeclaredStep ==
    ASSUME FromCase, ParametersRead, WindowDeclared, [Next]_vars
    PROVE  WindowDeclared'
<1>1. file' = file /\ given' = given
    BY StageMoves
<1>2. /\ HasLayout' = HasLayout /\ LayoutHistory' = LayoutHistory /\ LayoutFrame' = LayoutFrame
      /\ LayoutGiven' = LayoutGiven
    BY <1>1, FileStays DEF LayoutGiven
<1>3. CASE phase = "declared" /\ Next /\ phase' # "refused"
    <2>1. SettleDeclared
        BY <1>3, StageSteps
    <2> DEFINE sequence == FirstOf(<<params.sequence_length, file.history, LayoutHistory>>)
               feature == FirstOf(<<params.feature_size, file.frame, LayoutFrame>>)
               observation == FirstOf(<<params.observation_size, LayoutHistory * LayoutFrame>>)
    <2>2. /\ params' = params /\ LayoutWellFormed /\ LayoutAgrees
          /\ file.history >= 0 /\ file.frame >= 0
          /\ model' = [model EXCEPT !.sequence = sequence, !.feature = feature, !.observation = observation]
        BY <1>3, <2>1 DEF SettleDeclared, Stage
    <2>3. /\ sequence = IF params.sequence_length # 0 THEN params.sequence_length
                         ELSE IF file.history # 0 THEN file.history ELSE LayoutHistory
          /\ feature = IF params.feature_size # 0 THEN params.feature_size
                        ELSE IF file.frame # 0 THEN file.frame ELSE LayoutFrame
          /\ observation = IF params.observation_size # 0 THEN params.observation_size
                            ELSE LayoutHistory * LayoutFrame
        BY FirstOfTwo, FirstOfThree
    <2> HIDE DEF sequence, feature, observation
    <2>4. model'.sequence = sequence /\ model'.feature = feature /\ model'.observation = observation
        BY <2>2 DEF FromCase, Unsettled
    <2>5. /\ params.sequence_length \in Nat /\ params.feature_size \in Nat /\ params.observation_size \in Nat
          /\ file.history \in Int /\ file.frame \in Int
        BY <1>3, ConfiguredSizes, CaseFacts DEF NotRead, IsFile
    <2>6. /\ LayoutHistory \in Nat /\ LayoutFrame \in Nat /\ LayoutHistory * LayoutFrame \in Nat
          /\ HasLayout => LayoutGiven /\ LayoutHistory * LayoutFrame > 0
        BY <2>2, LayoutSizes
    <2> DEFINE whole == LayoutHistory * LayoutFrame
    <2>7. /\ Agree(file.history, LayoutHistory) /\ Agree(params.sequence_length, LayoutHistory)
          /\ Agree(file.frame, LayoutFrame) /\ Agree(params.feature_size, LayoutFrame)
          /\ Agree(params.observation_size, whole)
        BY <2>2 DEF LayoutAgrees
    <2>8. sequence \in Nat /\ feature \in Nat /\ observation \in Nat
        <3> HIDE DEF whole
        <3>1. whole \in Nat
            BY <2>6 DEF whole
        <3> QED
            BY <2>2, <2>3, <2>5, <2>6, <3>1 DEF whole
    <2>9. HasLayout => sequence = LayoutHistory /\ feature = LayoutFrame /\ observation = whole
        BY <2>3, <2>5, <2>6, <2>7 DEF Agree, LayoutGiven
    <2>10. params.observation_size # 0 => observation = params.observation_size
        BY <2>3
    <2>11. ObservationSettled' /\ SplitSettled'
        BY <1>2, <2>2, <2>4, <2>6, <2>8, <2>9, <2>10 DEF ObservationSettled, SplitSettled
    <2> QED
        BY <2>11 DEF WindowDeclared
<1>4. CASE phase # "declared" \/ UNCHANGED vars
    <2>1. \/ phase' \in NotDeclared
          \/ phase \notin NotDeclared /\ model'.observation = model.observation /\ params' = params
        BY <1>4, StageMoves DEF vars, NotDeclared, NotChecked, NotRead
    <2>2. phase \notin NotDeclared /\ phase' \notin NotDeclared => ObservationSettled'
        BY <1>2, <2>1 DEF WindowDeclared, ObservationSettled
    <2>3. phase' = "input" => phase = "input" /\ model' = model
        BY <1>4, StageMoves DEF vars
    <2>4. phase' = "input" => SplitSettled'
        BY <1>2, <2>3 DEF WindowDeclared, SplitSettled
    <2> QED
        BY <2>1, <2>2, <2>4 DEF WindowDeclared
<1>5. CASE phase' = "refused"
    BY <1>5 DEF WindowDeclared, NotDeclared, NotChecked, NotRead
<1> QED
    BY <1>3, <1>4, <1>5

LEMMA InputIs ==
    ASSUME FromCase, TensorsFit
    PROVE  /\ Rank \in 1..3 /\ Len(Input) = Rank /\ DOMAIN Input = 1..Rank
           /\ \A d \in 1..Rank : Input[d] \in Int /\ Dimension(d) \in Nat
           /\ \A d \in 1..Rank : Input[d] > 0 => Dimension(d) = Input[d] /\ Dimension(d) # 0
           /\ Rank >= 2 => Input[1] \in {1, -1}
<1>1. file.inputs[Primary] \in Tensors
    BY CaseFacts DEF IsFile, TensorsFit
<1>2. Input \in Seq(Int)
    BY <1>1 DEF Tensors, Input
<1> QED
    BY <1>2 DEF Rank, TensorsFit, BatchOk, Dimension

LEMMA FlatInput ==
    ASSUME FromCase, TensorsFit, ObservationSettled, SettleFlatInput, phase' # "refused"
    PROVE  ShapeSettled'
<1>1. /\ file' = file /\ given' = given /\ params' = params /\ Rank < 3 /\ FlatSize # 0
      /\ Agree(Dimension(Rank), model.observation)
      /\ model' = [model EXCEPT !.sequence = 1, !.feature = FlatSize,
                                !.shape = IF Rank = 1 THEN <<FlatSize>> ELSE <<1, FlatSize>>]
    BY DEF SettleFlatInput, Stage
<1>2. FlatSize = IF Dimension(Rank) # 0 THEN Dimension(Rank) ELSE model.observation
    BY FirstOfTwo DEF FlatSize
<1>3. /\ model'.sequence = 1 /\ model'.feature = FlatSize /\ model'.observation = model.observation
      /\ model'.shape = IF Rank = 1 THEN <<FlatSize>> ELSE <<1, FlatSize>>
    <2> HIDE DEF FlatSize
    <2> QED
        BY <1>1 DEF FromCase, Unsettled
<1>4. Rank' = Rank /\ Input' = Input /\ HasLayout' = HasLayout
    BY <1>1, TensorsStay, FileStays
<1>5. Rank \in 1..2 /\ model.observation \in Nat
    BY <1>1, InputIs DEF ObservationSettled
<1>6. FlatSize \in Nat /\ FlatSize > 0
    BY <1>1, <1>2, <1>5, InputIs
<1>7. Agree(1 * FlatSize, model.observation)
    BY <1>1, <1>2, <1>6 DEF Agree
<1>8. ASSUME NEW d \in 1..Rank, Input[d] > 0
      PROVE  model'.shape[d] = Input[d]
    <2>1. CASE d = Rank
        <3>1. FlatSize = Input[d]
            BY <1>2, <1>5, <1>8, <2>1, InputIs
        <3> QED
            BY <1>3, <1>5, <2>1, <3>1
    <2>2. CASE d # Rank
        <3>1. d = 1 /\ Rank = 2
            BY <1>5, <2>2
        <3> QED
            BY <1>3, <1>8, <3>1, InputIs
    <2> QED
        BY <2>1, <2>2
<1> HIDE DEF FlatSize
<1> QED
    BY <1>3, <1>4, <1>5, <1>6, <1>7, <1>8 DEF ShapeSettled

LEMMA SequenceInput ==
    ASSUME FromCase, TensorsFit, ObservationSettled, SplitSettled, SettleSequenceInput, phase' # "refused"
    PROVE  ShapeSettled'
<1> DEFINE s == Sequence
           f == FeatureOf(Sequence)
<1>1. /\ file' = file /\ given' = given /\ params' = params /\ Rank = 3 /\ SequenceFits(s, f)
      /\ model' = [model EXCEPT !.sequence = s, !.feature = f, !.shape = <<1, s, f>>]
    BY DEF SettleSequenceInput, Stage
<1>2. \A factor \in Nat : Quotient(factor) \in Nat
    <2>1. model.observation \in Nat
        BY DEF ObservationSettled
    <2>2. \A a, b \in Nat : b # 0 => a \div b \in Nat
        OBVIOUS
    <2> QED
        BY <2>1, <2>2 DEF Quotient
<1>3. Dimension(2) \in Nat /\ Dimension(3) \in Nat /\ Len(Input) = 3
    BY <1>1, InputIs
<1>4. Feature = (IF model.feature # 0 THEN model.feature ELSE Dimension(3)) /\ Feature \in Nat
    <2>1. Feature = IF model.feature # 0 THEN model.feature ELSE Dimension(3)
        BY FirstOfTwo DEF Feature
    <2> QED
        BY <2>1, <1>3 DEF SplitSettled
<1>5. /\ s = IF model.sequence # 0 THEN model.sequence
              ELSE IF Dimension(2) # 0 THEN Dimension(2) ELSE Quotient(Feature)
      /\ s \in Nat
    <2>1. s = IF model.sequence # 0 THEN model.sequence
              ELSE IF Dimension(2) # 0 THEN Dimension(2) ELSE Quotient(Feature)
        BY FirstOfThree DEF Sequence
    <2> HIDE DEF s
    <2> QED
        BY <2>1, <1>2, <1>3, <1>4 DEF SplitSettled
<1>6. f = (IF Feature # 0 THEN Feature ELSE Quotient(s)) /\ f \in Nat
    <2>1. f = IF Feature # 0 THEN Feature ELSE Quotient(s)
        BY FirstOfTwo DEF FeatureOf
    <2> HIDE DEF s, f
    <2> QED
        BY <2>1, <1>2, <1>4, <1>5
<1> HIDE DEF s, f
<1>7. /\ s # 0 /\ f # 0 /\ Agree(Dimension(2), s) /\ Agree(Dimension(3), f)
      /\ Agree(s * f, model.observation)
    BY <1>1 DEF SequenceFits
<1>8. /\ model'.sequence = s /\ model'.feature = f /\ model'.observation = model.observation
      /\ model'.shape = <<1, s, f>>
    BY <1>1 DEF FromCase, Unsettled
<1>9. /\ Rank' = Rank /\ Input' = Input /\ HasLayout' = HasLayout
      /\ LayoutHistory' = LayoutHistory /\ LayoutFrame' = LayoutFrame
    BY <1>1, TensorsStay, FileStays
<1>10. HasLayout => s = LayoutHistory /\ f = LayoutFrame
    BY <1>4, <1>5, <1>6 DEF SplitSettled, ObservationSettled, LayoutGiven
<1>11. ASSUME NEW d \in 1..3, Input[d] > 0
       PROVE  model'.shape[d] = Input[d]
    <2>1. CASE d = 1
        BY <1>1, <1>8, <1>11, <2>1, InputIs
    <2>2. CASE d = 2
        BY <1>1, <1>7, <1>8, <1>11, <2>2, InputIs DEF Agree
    <2>3. CASE d = 3
        BY <1>1, <1>7, <1>8, <1>11, <2>3, InputIs DEF Agree
    <2> QED
        BY <2>1, <2>2, <2>3
<1>12. s > 0 /\ f > 0
    BY <1>5, <1>6, <1>7
<1> QED
    BY <1>1, <1>5, <1>6, <1>7, <1>8, <1>9, <1>10, <1>11, <1>12 DEF ShapeSettled

LEMMA InputShapedStep ==
    ASSUME FromCase, TensorsChecked, WindowDeclared, InputShaped, [Next]_vars
    PROVE  InputShaped'
<1>1. CASE phase = "input" /\ Next /\ phase' # "refused"
    <2>1. TensorsFit /\ ObservationSettled /\ SplitSettled
        BY <1>1 DEF TensorsChecked, WindowDeclared, NotChecked, NotDeclared, NotRead
    <2>2. SettleFlatInput \/ SettleSequenceInput
        BY <1>1, StageSteps DEF SettleInput
    <2>3. ShapeSettled'
        BY <1>1, <2>1, <2>2, FlatInput, SequenceInput
    <2> QED
        BY <2>3 DEF InputShaped
<1>2. CASE phase # "input" \/ UNCHANGED vars
    <2>1. \/ phase' \in NotShaped
          \/ /\ phase \notin NotShaped /\ file' = file /\ params' = params
             /\ model'.sequence = model.sequence /\ model'.feature = model.feature
             /\ model'.shape = model.shape /\ model'.observation = model.observation
        BY <1>2, StageMoves DEF vars, NotShaped, NotDeclared, NotChecked, NotRead
    <2> QED
        BY <2>1, FileStays, TensorsStay DEF InputShaped, ShapeSettled
<1>3. CASE phase' = "refused"
    BY <1>3 DEF InputShaped, NotShaped, NotDeclared, NotChecked, NotRead
<1> QED
    BY <1>1, <1>2, <1>3

----------------------------------------------------------------------------
(* The constants, the output, the normalization and the inferences. *)

LEMMA ConstantsStay ==
    ASSUME file' = file, given' = given, params' = params
    PROVE  ConstantsNamed' = ConstantsNamed /\ ConstantsMade' = ConstantsMade /\ Slots' = Slots
<1>1. Others' = Others /\ Primary' = Primary
    BY TensorsStay
<1>2. ConstantsMade' = ConstantsMade
    BY <1>1 DEF ConstantsMade
<1>3. ConstantsNamed' = ConstantsNamed
    BY <1>1 DEF ConstantsNamed
<1>4. Slots' = Slots
    BY <1>1 DEF Slots
<1> QED
    BY <1>2, <1>3, <1>4

LEMMA ConstantsBoundStep ==
    ASSUME FromCase, ParametersRead, ConstantsBound, [Next]_vars
    PROVE  ConstantsBound'
<1>1. CASE phase = "constants" /\ Next /\ phase' # "refused"
    <2>1. BindConstants
        BY <1>1, StageSteps
    <2>2. /\ file' = file /\ given' = given /\ params' = params
          /\ DOMAIN params.extra = {file.inputs[Others[k]].name : k \in DOMAIN Others}
          /\ \A k \in DOMAIN Others :
                ConstantFits(file.inputs[Others[k]], params.extra[file.inputs[Others[k]].name])
          /\ model' = [model EXCEPT !.constants = ConstantsMade, !.constant_slot = Slots]
        BY <1>1, <2>1 DEF BindConstants, Stage, ConstantsMade, Slots
    <2>3. model'.constants = ConstantsMade /\ model'.constant_slot = Slots
        BY <2>2 DEF FromCase, Unsettled
    <2>4. params.extra = given.extra_inputs
        BY <1>1, ConfiguredSizes DEF NotRead
    <2>5. ConstantsNamed
        BY <2>2, <2>4 DEF ConstantsNamed, ShapeOfConstant, ConstantFits
    <2> QED
        BY <2>2, <2>3, <2>5, ConstantsStay DEF ConstantsBound, ConstantsSettled
<1>2. CASE phase # "constants" \/ UNCHANGED vars
    <2>1. \/ phase' \in NotBound
          \/ /\ phase \notin NotBound /\ file' = file /\ given' = given /\ params' = params
             /\ model'.constants = model.constants /\ model'.constant_slot = model.constant_slot
        BY <1>2, StageMoves DEF vars, NotBound, NotShaped, NotDeclared, NotChecked, NotRead
    <2> QED
        BY <2>1, ConstantsStay DEF ConstantsBound, ConstantsSettled
<1>3. CASE phase' = "refused"
    BY <1>3 DEF ConstantsBound, NotBound, NotShaped, NotDeclared, NotChecked, NotRead
<1> QED
    BY <1>1, <1>2, <1>3

LEMMA UnbatchedIs ==
    ASSUME NEW shape \in Seq(Int), Len(shape) \in 1..3
    PROVE  Unbatched(shape) \in Seq(Int)
BY DEF Unbatched

LEMMA OutputSizedStep ==
    ASSUME FromCase, ParametersRead, TensorsChecked, OutputSized, [Next]_vars
    PROVE  OutputSized'
<1>1. CASE phase = "output" /\ Next /\ phase' # "refused"
    <2>1. SettleOutput
        BY <1>1, StageSteps
    <2>2. /\ params' = params /\ model' = [model EXCEPT !.output_size = OutputSize]
          /\ IF OutputDynamic THEN params.action_size # 0 ELSE Agree(params.action_size, OutputSize)
        BY <1>1, <2>1 DEF SettleOutput, Stage
    <2>3. model'.output_size = OutputSize
        <3> HIDE DEF OutputSize
        <3> QED
            BY <2>2 DEF FromCase, Unsettled
    <2>4. params.action_size \in Nat
        BY <1>1, ConfiguredSizes DEF NotRead
    <2>5. CASE OutputDynamic
        BY <2>2, <2>3, <2>4, <2>5 DEF OutputSized, OutputSettled, OutputSize, Agree
    <2>6. CASE ~OutputDynamic
        <3>1. TensorsFit
            BY <1>1 DEF TensorsChecked, NotChecked, NotRead
        <3>2. Output \in Seq(Int) /\ Len(Output) \in 1..3
            <4>1. file.outputs \in Seq(Tensors) /\ Len(file.outputs) = 1
                BY <3>1, CaseFacts DEF IsFile, TensorsFit
            <4>2. file.outputs[1] \in Tensors
                BY <4>1
            <4> QED
                BY <3>1, <4>2 DEF TensorsFit, Tensors, Output
        <3>3. OutputDims \in Seq(Int)
            BY <3>2, UnbatchedIs DEF OutputDims
        <3>4. \A k \in 1..Len(OutputDims) : OutputDims[k] \in Int /\ OutputDims[k] > 0
            BY <2>6, <3>3 DEF OutputDynamic
        <3>5. Len(OutputDims) \in Nat /\ DOMAIN OutputDims = 1..Len(OutputDims)
            BY <3>3
        <3>6. Product(OutputDims) \in Nat /\ Product(OutputDims) > 0
            BY <3>4, <3>5, ProductPositive
        <3>7. OutputSize = Product(OutputDims)
            BY <2>6 DEF OutputSize
        <3> QED
            BY <2>2, <2>3, <2>6, <3>6, <3>7 DEF OutputSized, OutputSettled, Agree
    <2> QED
        BY <2>5, <2>6
<1>2. CASE phase # "output" \/ UNCHANGED vars
    <2>1. \/ phase' \in NotSized
          \/ phase \notin NotSized /\ params' = params /\ model'.output_size = model.output_size
        BY <1>2, StageMoves DEF vars, NotSized, NotBound, NotShaped, NotDeclared, NotChecked, NotRead
    <2> QED
        BY <2>1 DEF OutputSized, OutputSettled
<1>3. CASE phase' = "refused"
    BY <1>3 DEF OutputSized, NotSized, NotBound, NotShaped, NotDeclared, NotChecked, NotRead
<1> QED
    BY <1>1, <1>2, <1>3

LEMMA NormalizationLoadedStep ==
    ASSUME FromCase, NormalizationLoaded, [Next]_vars
    PROVE  NormalizationLoaded'
<1>1. CASE phase = "normalization" /\ Next /\ phase' # "refused"
    <2>1. LoadNormalization
        BY <1>1, StageSteps
    <2> DEFINE mean == IF params.normalization_from_metadata THEN Numbers(file.mean) ELSE <<>>
               deviation == IF params.normalization_from_metadata THEN Numbers(file.deviation) ELSE <<>>
    <2>2. /\ params.normalization_from_metadata =>
                /\ (file.mean = Absent) <=> (file.deviation = Absent)
                /\ file.mean # Absent =>
                    /\ Len(file.mean) = InputSize /\ Len(file.deviation) = InputSize
                    /\ \A i \in DOMAIN file.deviation : file.deviation[i] > 0
          /\ model' = [model EXCEPT !.mean = mean, !.deviation = deviation,
                                    !.obs_clip = ClipOf(params.obs_clip, file.obs_clip),
                                    !.action_clip = ClipOf(params.action_clip, file.action_clip)]
        BY <1>1, <2>1 DEF LoadNormalization, Stage, NormalizationFits
    <2>3. model'.mean = mean /\ model'.deviation = deviation /\ model'.shape = model.shape
        <3> HIDE DEF mean, deviation
        <3> QED
            BY <2>2 DEF FromCase, Unsettled
    <2>4. InputSize' = InputSize
        BY <2>3 DEF InputSize
    <2>5. ASSUME mean # <<>>
          PROVE  /\ Len(mean) = InputSize /\ Len(deviation) = InputSize
                 /\ \A i \in 1..InputSize : deviation[i] # 0
        <3>1. params.normalization_from_metadata /\ file.mean # Absent
            BY <2>5 DEF Numbers
        <3>2. file.deviation # Absent /\ mean = file.mean /\ deviation = file.deviation
            BY <2>2, <3>1 DEF Numbers
        <3>3. file.deviation \in Seq(Int \cup {Infinite, NaN})
            BY <3>2, CaseFacts DEF IsFile, NumberLists
        <3>4. DOMAIN file.deviation = 1..Len(file.deviation)
            BY <3>3
        <3>5. Len(file.mean) = InputSize /\ Len(file.deviation) = InputSize
            BY <2>2, <3>1
        <3>6. \A i \in 1..InputSize : file.deviation[i] > 0
            BY <2>2, <3>1, <3>4, <3>5
        <3> QED
            BY <3>2, <3>5, <3>6
    <2> HIDE DEF mean, deviation
    <2> QED
        BY <2>3, <2>4, <2>5 DEF NormalizationLoaded, NormalizationSettled
<1>2. CASE phase # "normalization" \/ UNCHANGED vars
    <2>1. \/ phase' \in NotNormalized
          \/ /\ phase \notin NotNormalized /\ model'.mean = model.mean
             /\ model'.deviation = model.deviation /\ model'.shape = model.shape
        BY <1>2, StageMoves
        DEF vars, NotNormalized, NotSized, NotBound, NotShaped, NotDeclared, NotChecked, NotRead
    <2> QED
        BY <2>1 DEF NormalizationLoaded, NormalizationSettled, InputSize
<1>3. CASE phase' = "refused"
    BY <1>3 DEF NormalizationLoaded, NotNormalized, NotSized, NotBound, NotShaped, NotDeclared, NotChecked, NotRead
<1> QED
    BY <1>1, <1>2, <1>3

LEMMA TensorsGivenStep ==
    ASSUME FromCase, TensorsGiven, [Next]_vars
    PROVE  TensorsGiven'
<1>1. CASE phase = "ready"
    <2>1. phase' = phase /\ model' = model /\ file' = file
        BY <1>1, StageMoves
    <2>2. SessionTensors' = SessionTensors
        BY <2>1 DEF SessionTensors, InputSize
    <2>3. inference' = inference \/ inference'.tensors \in {<<>>, SessionTensors}
        BY <1>1, StageSteps DEF Infer, vars
    <2> QED
        BY <1>1, <2>1, <2>2, <2>3 DEF TensorsGiven
<1>2. CASE phase # "ready"
    BY <1>2, StageMoves DEF TensorsGiven
<1> QED
    BY <1>1, <1>2

----------------------------------------------------------------------------
(* What follows when the process is ready. *)

LEMMA SettledInit == Init => Settled
BY DEF Init, Settled, FromCase, ParametersRead, TensorsChecked, WindowDeclared, InputShaped,
       ConstantsBound, OutputSized, NormalizationLoaded, TensorsGiven, NotReady, NotNormalized,
       NotSized, NotBound, NotShaped, NotDeclared, NotChecked, NotRead

LEMMA SettledStep ==
    ASSUME Settled, [Next]_vars
    PROVE  Settled'
BY StageMoves, ParametersReadStep, TensorsCheckedStep, WindowDeclaredStep, InputShapedStep,
   ConstantsBoundStep, OutputSizedStep, NormalizationLoadedStep, TensorsGivenStep
DEF Settled

\* Every stage leaves what it settled to those after it.
THEOREM SettledAlways == Spec => []Settled
BY SettledInit, SettledStep, PTL DEF Spec

LEMMA ReadyIs ==
    ASSUME Settled, Ready
    PROVE  /\ FromCase /\ TensorsFit /\ ObservationSettled /\ ShapeSettled /\ ConstantsSettled
           /\ OutputSettled /\ NormalizationSettled /\ ParametersRead /\ phase \notin NotRead
BY DEF Settled, Ready, TensorsChecked, WindowDeclared, InputShaped, ConstantsBound, OutputSized,
       NormalizationLoaded, NotNormalized, NotSized, NotBound, NotShaped, NotDeclared, NotChecked, NotRead

\* The size of the input is that of its window.
LEMMA InputSizeIs ==
    ASSUME FromCase, TensorsFit, ShapeSettled
    PROVE  InputSize = model.sequence * model.feature /\ InputSize \in Nat /\ InputSize > 0
<1>1. /\ Rank \in 1..3 /\ model.sequence \in Nat /\ model.sequence > 0
      /\ model.feature \in Nat /\ model.feature > 0
    BY DEF TensorsFit, ShapeSettled
<1>2. CASE Rank = 1
    <2>1. model.shape = <<model.feature>> /\ model.sequence = 1
        BY <1>2 DEF ShapeSettled
    <2> QED
        BY <1>1, <2>1, ProductOfOne DEF InputSize
<1>3. CASE Rank = 2
    <2>1. model.shape = <<1, model.feature>> /\ model.sequence = 1
        BY <1>3 DEF ShapeSettled
    <2> QED
        BY <1>1, <2>1, ProductOfTwo DEF InputSize
<1>4. CASE Rank = 3
    <2>1. model.shape = <<1, model.sequence, model.feature>>
        BY <1>4 DEF ShapeSettled
    <2>2. DOMAIN model.shape = 1..3 /\ model.shape[1] = 1 /\ model.shape[2] = model.sequence
          /\ model.shape[3] = model.feature
        BY <2>1
    <2>4. Product(model.shape) = model.shape[1] * model.shape[2] * model.shape[3]
        <3>1. model.shape[1] \in Int /\ model.shape[2] \in Int /\ model.shape[3] \in Int
            BY <1>1, <2>2
        <3> QED
            BY <2>2, <3>1, ProductOfThree
    <2>6. InputSize = 1 * model.sequence * model.feature
        BY <2>2, <2>4 DEF InputSize
    <2>3. \A a, b \in Nat : a > 0 /\ b > 0 => 1 * a * b = a * b /\ a * b \in Nat /\ a * b > 0
        OBVIOUS
    <2> QED
        BY <1>1, <2>3, <2>6
<1> QED
    BY <1>1, <1>2, <1>3, <1>4

LEMMA SignedWindow == Settled => WindowIsTheSigned
<1> SUFFICES ASSUME Settled, Ready, HasLayout
             PROVE  /\ InputSize = LayoutHistory * LayoutFrame
                    /\ Rank = 3 => model.sequence = LayoutHistory /\ model.feature = LayoutFrame
    BY DEF WindowIsTheSigned
<1>1. FromCase /\ TensorsFit /\ ObservationSettled /\ ShapeSettled
    BY ReadyIs
<1>2. InputSize = model.sequence * model.feature /\ InputSize \in Nat /\ InputSize > 0
    BY <1>1, InputSizeIs
<1>3. LayoutGiven /\ model.observation = LayoutHistory * LayoutFrame
    BY <1>1 DEF ObservationSettled
<1>4. LayoutHistory * LayoutFrame # 0
    <2>1. \A a, b \in Nat : a > 0 /\ b > 0 => a * b # 0
        OBVIOUS
    <2> QED
        BY <1>3, <2>1 DEF LayoutGiven
<1>5. Agree(InputSize, model.observation)
    BY <1>1, <1>2 DEF ShapeSettled
<1> QED
    BY <1>1, <1>2, <1>3, <1>4, <1>5 DEF Agree, ShapeSettled

\* README.md:81: whatever else the file and the parameters declare, the window a model
\* takes is the one its layout signature describes.
THEOREM WindowSafe == Spec => []WindowIsTheSigned
BY SettledAlways, SignedWindow, PTL

LEMMA ConfiguredSizesHold == Settled => SizesAsConfigured
<1> SUFFICES ASSUME Settled, Ready
             PROVE  /\ ValueOr(given.parameters, "rl_obs_size", InputSize) = InputSize
                    /\ ValueOr(given.parameters, "rl_action_size", model.output_size) = model.output_size
                    /\ model.output_size > 0
    BY DEF SizesAsConfigured
<1>1. /\ FromCase /\ TensorsFit /\ ObservationSettled /\ ShapeSettled /\ OutputSettled
      /\ ParametersRead /\ phase \notin NotRead
    BY ReadyIs
<1>2. /\ params.observation_size = IntegerOr(given.parameters, "rl_obs_size", 0)
      /\ params.action_size = IntegerOr(given.parameters, "rl_action_size", 0)
      /\ PositiveOk("rl_obs_size") /\ PositiveOk("rl_action_size")
    BY <1>1, ConfiguredSizes
<1>3. ASSUME IsSet(given.parameters, "rl_obs_size")
      PROVE  ValueOr(given.parameters, "rl_obs_size", InputSize) = InputSize
    <2>1. /\ params.observation_size \in Nat /\ params.observation_size > 0
          /\ given.parameters["rl_obs_size"][2] = params.observation_size
        BY <1>1, <1>2, <1>3, SizeGiven
    <2>2. model.observation = params.observation_size
        BY <1>1, <2>1 DEF ObservationSettled
    <2>3. InputSize \in Nat /\ InputSize > 0 /\ Agree(InputSize, model.observation)
        BY <1>1, InputSizeIs DEF ShapeSettled
    <2>4. InputSize = params.observation_size
        BY <2>1, <2>2, <2>3 DEF Agree
    <2>5. ValueOr(given.parameters, "rl_obs_size", InputSize) = given.parameters["rl_obs_size"][2]
        BY <1>3 DEF ValueOr
    <2> QED
        BY <2>1, <2>4, <2>5
<1>4. ASSUME IsSet(given.parameters, "rl_action_size")
      PROVE  ValueOr(given.parameters, "rl_action_size", model.output_size) = model.output_size
    <2>1. /\ params.action_size \in Nat /\ params.action_size > 0
          /\ given.parameters["rl_action_size"][2] = params.action_size
        BY <1>1, <1>2, <1>4, SizeGiven
    <2>2. model.output_size = params.action_size
        BY <1>1, <2>1 DEF Agree, OutputSettled
    <2>3. ValueOr(given.parameters, "rl_action_size", model.output_size) = given.parameters["rl_action_size"][2]
        BY <1>4 DEF ValueOr
    <2> QED
        BY <2>1, <2>2, <2>3
<1>5. ~IsSet(given.parameters, "rl_obs_size") => ValueOr(given.parameters, "rl_obs_size", InputSize) = InputSize
    BY DEF ValueOr
<1>6. ~IsSet(given.parameters, "rl_action_size") =>
        ValueOr(given.parameters, "rl_action_size", model.output_size) = model.output_size
    BY DEF ValueOr
<1>7. model.output_size > 0
    BY <1>1 DEF OutputSettled
<1>8. ValueOr(given.parameters, "rl_obs_size", InputSize) = InputSize
    BY <1>3, <1>5
<1>9. ValueOr(given.parameters, "rl_action_size", model.output_size) = model.output_size
    BY <1>4, <1>6
<1> QED
    BY <1>7, <1>8, <1>9

\* on_observation() and the bridge: a size named in the YAML is the one the model has.
THEOREM SizesSafe == Spec => []SizesAsConfigured
BY SettledAlways, ConfiguredSizesHold, PTL

\* run() indexes the mean and the deviation within their lengths and divides by no 0.
THEOREM NormalizationSafe == Spec => []NormalizationInRange
<1>1. Settled => NormalizationInRange
    BY ReadyIs DEF NormalizationInRange, NormalizationSettled
<1> QED
    BY <1>1, SettledAlways, PTL

LEMMA PrimaryFed ==
    ASSUME FromCase, TensorsFit, ShapeSettled
    PROVE  /\ Len(model.shape) = Len(Input)
           /\ \A d \in DOMAIN Input :
                model.shape[d] > 0 /\ (Input[d] > 0 => model.shape[d] = Input[d])
<1>1. Rank \in 1..3 /\ Len(Input) = Rank /\ DOMAIN Input = 1..Rank
    BY InputIs
<1>2. CASE Rank = 1
    BY <1>1, <1>2 DEF ShapeSettled
<1>3. CASE Rank = 2
    BY <1>1, <1>3 DEF ShapeSettled
<1>4. CASE Rank = 3
    BY <1>1, <1>4 DEF ShapeSettled
<1> QED
    BY <1>1, <1>2, <1>3, <1>4

LEMMA WithBatch ==
    ASSUME NEW t \in Seq(Int)
    PROVE  LET w == <<1>> \o t
           IN  w \in Seq(Int) /\ Len(w) = Len(t) + 1 /\ w[1] = 1 /\ \A i \in 1..Len(t) : w[i + 1] = t[i]
<1> DEFINE one == <<1>>
           w == one \o t
<1>1. one \in Seq(Int) /\ Len(one) = 1 /\ one[1] = 1
    OBVIOUS
<1> HIDE DEF one
<1>2. w \in Seq(Int) /\ Len(w) = 1 + Len(t) /\ \A i \in 1..1 + Len(t) : w[i] = IF i <= 1 THEN one[i] ELSE t[i - 1]
    <2>1. /\ w \in Seq(Int) /\ Len(w) = Len(one) + Len(t)
          /\ \A i \in 1..Len(one) + Len(t) : w[i] = IF i <= Len(one) THEN one[i] ELSE t[i - Len(one)]
        BY <1>1, ConcatProperties
    <2> QED
        BY <1>1, <2>1
<1> HIDE DEF w
<1>3. Len(t) \in Nat
    OBVIOUS
<1>4. ASSUME NEW i \in 1..Len(t)
      PROVE  w[i + 1] = t[i]
    <2>1. i + 1 \in 1..1 + Len(t) /\ ~(i + 1 <= 1) /\ (i + 1) - 1 = i
        BY <1>3
    <2> QED
        BY <1>2, <2>1
<1>5. w[1] = 1
    <2>1. 1 \in 1..1 + Len(t)
        BY <1>3
    <2> QED
        BY <1>1, <1>2, <2>1
<1> QED
    BY <1>2, <1>3, <1>4, <1>5 DEF w, one

\* A constant fits its input, with its batch dimension.
LEMMA ConstantFed ==
    ASSUME NEW input \in Tensors, ShapeOfConstant(input.shape)
    PROVE  /\ Constant(input).element = input.element
           /\ Len(Constant(input).shape) = Len(input.shape)
           /\ \A d \in DOMAIN input.shape :
                /\ Constant(input).shape[d] > 0
                /\ input.shape[d] > 0 => Constant(input).shape[d] = input.shape[d]
           /\ Constant(input).count = Product(Constant(input).shape)
<1> DEFINE shape == input.shape
           rest == Tail(shape)
           whole == <<1>> \o rest
<1>1. /\ shape \in Seq(Int) /\ Len(shape) \in 1..3 /\ BatchOk(shape)
      /\ Len(shape) = 1 \/ Len(shape) >= 2
    <2>1. shape \in Seq(Int) /\ Len(shape) \in 1..3 /\ BatchOk(shape)
        BY DEF Tensors, ShapeOfConstant
    <2>2. \A n \in 1..3 : n = 1 \/ n >= 2
        OBVIOUS
    <2> QED
        BY <2>1, <2>2
<1>2. \A i \in DOMAIN Unbatched(shape) : Unbatched(shape)[i] > 0
    BY DEF ShapeOfConstant
<1>3. /\ Constant(input).element = input.element /\ Constant(input).shape = ConstantShape(shape)
      /\ Constant(input).count = Product(Unbatched(shape))
    BY DEF Constant
<1> HIDE DEF shape
<1>4. CASE Len(shape) = 1
    <2>1. Unbatched(shape) = shape /\ ConstantShape(shape) = shape
        BY <1>4 DEF Unbatched, ConstantShape
    <2> QED
        BY <1>2, <1>3, <2>1 DEF shape
<1>5. CASE Len(shape) >= 2
    <2>1. Unbatched(shape) = rest /\ ConstantShape(shape) = whole
        BY <1>5 DEF Unbatched, ConstantShape
    <2>2. rest \in Seq(Int) /\ Len(rest) = Len(shape) - 1 /\ \A i \in 1..Len(rest) : rest[i] = shape[i + 1]
        <3>1. shape # <<>>
            BY <1>5
        <3> QED
            BY <1>1, <3>1, HeadTailProperties
    <2> HIDE DEF rest
    <2>3. whole \in Seq(Int) /\ Len(whole) = Len(rest) + 1 /\ whole[1] = 1 /\ \A i \in 1..Len(rest) : whole[i + 1] = rest[i]
        BY <2>2, WithBatch
    <2> HIDE DEF whole
    <2>4. \A i \in 1..Len(rest) : rest[i] > 0
        BY <1>2, <2>1, <2>2
    <2>5. shape[1] \in {1, -1}
        BY <1>1, <1>5 DEF BatchOk
    <2>6. ASSUME NEW d \in DOMAIN shape
          PROVE  whole[d] > 0 /\ (shape[d] > 0 => whole[d] = shape[d])
        <3>1. d \in 1..Len(shape)
            BY <1>1
        <3>2. CASE d = 1
            BY <2>3, <2>5, <3>2
        <3>3. CASE d # 1
            <4>1. d - 1 \in 1..Len(rest) /\ (d - 1) + 1 = d
                BY <1>1, <1>5, <2>2, <3>1, <3>3
            <4> QED
                BY <2>2, <2>3, <2>4, <4>1
        <3> QED
            BY <3>2, <3>3
    <2>7. Product(rest) = Product(whole)
        <3>1. /\ \A i \in 1..Len(rest) : rest[i] \in Int /\ whole[i + 1] = rest[i]
              /\ DOMAIN rest = 1..Len(rest) /\ DOMAIN whole = 1..Len(rest) + 1
            BY <2>2, <2>3
        <3>2. CASE Len(rest) = 1
            <4>1. DOMAIN rest = 1..1 /\ DOMAIN whole = 1..2
                BY <3>1, <3>2
            <4>2. rest[1] \in Int /\ whole[1 + 1] = rest[1]
                BY <3>1, <3>2
            <4> QED
                BY <2>3, <4>1, <4>2, ProductOfOne, ProductOfTwo
        <3>3. CASE Len(rest) = 2
            <4>1. DOMAIN rest = 1..2 /\ DOMAIN whole = 1..3
                BY <3>1, <3>3
            <4>2. rest[1] \in Int /\ rest[2] \in Int /\ whole[1 + 1] = rest[1] /\ whole[2 + 1] = rest[2]
                BY <3>1, <3>3
            <4>3. Product(rest) = rest[1] * rest[2] /\ Product(whole) = 1 * rest[1] * rest[2]
                BY <2>3, <4>1, <4>2, ProductOfTwo, ProductOfThree
            <4> QED
                BY <4>2, <4>3
        <3> QED
            BY <1>1, <1>5, <2>2, <3>2, <3>3
    <2>8. Len(whole) = Len(shape)
        BY <1>1, <2>2, <2>3
    <2> QED
        BY <1>3, <2>1, <2>6, <2>7, <2>8 DEF shape
<1> QED
    BY <1>1, <1>4, <1>5

LEMMA InputsFed == Settled => EveryInputFed
<1> SUFFICES ASSUME Settled PROVE EveryInputFed
    OBVIOUS
<1>1. ASSUME Ready
      PROVE  DOMAIN given.extra_inputs \subseteq {file.inputs[i].name : i \in DOMAIN file.inputs}
    <2>1. FromCase /\ TensorsFit /\ ConstantsNamed
        BY <1>1, ReadyIs DEF ConstantsSettled
    <2>2. DOMAIN file.inputs = 1..Len(file.inputs) /\ Len(file.inputs) \in Nat
        BY <2>1, CaseFacts DEF IsFile
    <2>3. \A k \in DOMAIN Others : Others[k] \in DOMAIN file.inputs
        BY <2>1, <2>2 DEF Others, TensorsFit
    <2> QED
        BY <2>1, <2>3 DEF ConstantsNamed
<1>2. ASSUME inference.tensors # <<>>, NEW i \in DOMAIN file.inputs
      PROVE  LET input == file.inputs[i]
                 tensor == inference.tensors[i]
             IN  /\ tensor.element = input.element
                 /\ Len(tensor.shape) = Len(input.shape)
                 /\ \A d \in DOMAIN input.shape :
                    /\ tensor.shape[d] > 0
                    /\ input.shape[d] > 0 => tensor.shape[d] = input.shape[d]
                 /\ tensor.count = Product(tensor.shape)
    <2>1. Ready /\ inference.tensors = SessionTensors
        BY <1>2 DEF Settled, TensorsGiven, Ready
    <2>2. FromCase /\ TensorsFit /\ ShapeSettled /\ ConstantsSettled
        BY <2>1, ReadyIs
    <2>3. /\ DOMAIN file.inputs = 1..Len(file.inputs) /\ Len(file.inputs) \in Nat
          /\ file.inputs[i] \in Tensors /\ Primary \in 1..Len(file.inputs)
        BY <2>2, CaseFacts DEF IsFile, TensorsFit
    <2>4. model.constant_slot[i] = IF i = Primary THEN 0 ELSE IF i < Primary THEN i ELSE i - 1
        BY <2>2 DEF ConstantsSettled, Slots
    <2>5. CASE i = Primary
        <3>1. inference.tensors[i] = [element |-> "float", count |-> InputSize, shape |-> model.shape]
            BY <2>1, <2>4, <2>5 DEF SessionTensors
        <3>2. Input = file.inputs[i].shape /\ file.inputs[i].element = "float"
            BY <2>2, <2>5 DEF Input, TensorsFit
        <3> QED
            BY <2>2, <3>1, <3>2, PrimaryFed DEF InputSize
    <2>6. CASE i # Primary
        <3> DEFINE slot == IF i < Primary THEN i ELSE i - 1
        <3>1. slot \in 1..Len(file.inputs) - 1 /\ slot # 0
            BY <2>3, <2>6
        <3>2. slot \in DOMAIN Others /\ Others[slot] = i
            BY <2>3, <2>6, <3>1 DEF Others
        <3>3. inference.tensors[i] = model.constants[slot]
            BY <2>1, <2>4, <2>6, <3>1 DEF SessionTensors
        <3>4. model.constants[slot] = Constant(file.inputs[i])
            BY <2>2, <3>2 DEF ConstantsSettled, ConstantsMade
        <3>5. ShapeOfConstant(file.inputs[i].shape)
            BY <2>2, <3>2 DEF ConstantsSettled, ConstantsNamed
        <3> QED
            BY <2>3, <3>3, <3>4, <3>5, ConstantFed
    <2> QED
        BY <2>5, <2>6
<1> QED
    BY <1>1, <1>2 DEF EveryInputFed

\* onnx_runtime.cpp:440-471: every input of the session gets a tensor of its type, its rank
\* and its fixed dimensions, and nothing that was declared is silently unused.
THEOREM InputsSafe == Spec => []EveryInputFed
BY SettledAlways, InputsFed, PTL
=============================================================================
