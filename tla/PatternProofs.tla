----------------------------- MODULE PatternProofs -----------------------------
(***************************************************************************)
(* What the compile-time algorithms compute, for every pattern text and    *)
(* every pack of options.  Each of them is a recursive function over the   *)
(* positions of a sequence; that it exists, and what it returns, is shown  *)
(* by looking at the last position where it would not.                     *)
(***************************************************************************)
EXTENDS Config, SequenceTheorems, FiniteSetTheorems, FunctionTheorems, TLAPS

\* Among numbers there is a least one.
LEMMA LeastNumber ==
    ASSUME NEW T \in SUBSET Nat, T # {}
    PROVE  \E x \in T : \A y \in T : x <= y
<1>1. PICK x \in T : \A y \in T : ~ (<<y, x>> \in OpToRel(<, Nat))
  BY WFMin, NatLessThanWellFounded
<1>2. \A y \in T : ~ (y < x)
  BY <1>1 DEF OpToRel
<1> QED
  BY <1>2

\* What is not so at every position from 1 to n is last not so at some position.
LEMMA LastFailure ==
    ASSUME NEW n \in Nat, NEW T \in SUBSET (1 .. n), T # {}
    PROVE  \E i \in T : \A j \in T : j <= i
<1> DEFINE U == {k \in Nat : \E i \in T : k = n - i}
<1>1. U # {}
  <2>1. PICK i \in T : TRUE
    OBVIOUS
  <2>2. n - i \in U
    BY <2>1
  <2> QED
    BY <2>2
<1>2. PICK k \in U : \A l \in U : k <= l
  <2> HIDE DEF U
  <2> QED
    BY <1>1, LeastNumber DEF U
<1>3. PICK i \in T : k = n - i
  BY <1>2
<1>4. ASSUME NEW j \in T PROVE j <= i
  <2>1. n - j \in U
    OBVIOUS
  <2> HIDE DEF U
  <2> QED
    BY <1>2, <1>3, <2>1
<1> QED
  BY <1>4

\* A function on the positions, whose value at each of them follows from its value at
\* a later one, or not from another.
Recursion(n, V, Stops, base, next, step) ==
    /\ n \in Nat
    /\ base \in [1 .. n + 1 -> V] /\ next \in [1 .. n + 1 -> Int] /\ step \in [1 .. n + 1 -> [V -> V]]
    /\ \A i \in 1 .. n + 1 : i \in Stops \/ (i < next[i] /\ next[i] <= n + 1)

Solution(f, n, V, Stops, base, next, step) ==
    /\ f \in [1 .. n + 1 -> V]
    /\ \A i \in 1 .. n + 1 : f[i] = IF i \in Stops THEN base[i] ELSE step[i][f[next[i]]]

LEMMA Descends ==
    ASSUME NEW n, NEW V, NEW Stops, NEW base, NEW next, NEW step,
           Recursion(n, V, Stops, base, next, step)
    PROVE  \E f : Solution(f, n, V, Stops, base, next, step)
<1> DEFINE Value(f, i) == IF i \in Stops THEN base[i] ELSE step[i][f[next[i]]]
           From(m) == \E f \in [m .. n + 1 -> V] : \A i \in m .. n + 1 : f[i] = Value(f, i)
           T == {m \in 1 .. n + 1 : ~From(m)}
<1> USE DEF Recursion
<1>1. SUFFICES ASSUME ~From(1) PROVE FALSE
  <2> HIDE DEF Recursion
  <2> QED
    BY DEF Solution
<1>2. PICK m \in T : \A l \in T : l <= m
  <2> HIDE DEF From
  <2>1. T # {} /\ T \in SUBSET (1 .. n + 1) /\ n + 1 \in Nat
    <3>1. 1 \in T
      BY <1>1
    <3> QED
      BY <3>1
  <2> HIDE DEF T
  <2> QED
    BY <2>1, LastFailure
<1>3. From(m + 1)
  <2>1. CASE m < n + 1
    <3> HIDE DEF From
    <3> QED
      BY <1>2, <2>1
  <2>2. CASE m = n + 1
    <3>1. m + 1 .. n + 1 = {}
      BY <2>2
    <3>2. [x \in {} |-> 0] \in [m + 1 .. n + 1 -> V]
      BY <3>1
    <3> QED
      BY <3>1, <3>2
  <2> HIDE DEF From
  <2> QED
    BY <1>2, <2>1, <2>2
<1>4. PICK f \in [m + 1 .. n + 1 -> V] : \A i \in m + 1 .. n + 1 : f[i] = Value(f, i)
  BY <1>3
<1> DEFINE g == [i \in m .. n + 1 |-> IF i = m THEN Value(f, m) ELSE f[i]]
<1>5. Value(f, m) \in V
  <2>1. CASE m \in Stops
    BY <2>1
  <2>2. CASE m \notin Stops
    <3>1. f[next[m]] \in V
      BY <2>2
    <3> QED
      BY <2>2, <3>1
  <2> QED
    BY <2>1, <2>2
<1>6. g \in [m .. n + 1 -> V]
  <2> HIDE DEF Value
  <2> QED
    BY <1>5
<1>7. ASSUME NEW i \in m .. n + 1 PROVE g[i] = Value(g, i)
  <2>1. CASE i \in Stops
    BY <1>4, <2>1
  <2>2. CASE i \notin Stops
    <3>1. next[i] \in m + 1 .. n + 1
      BY <2>2
    <3>2. g[next[i]] = f[next[i]]
      BY <3>1
    <3>3. g[i] = step[i][f[next[i]]]
      BY <1>4, <2>2
    <3> QED
      BY <2>2, <3>2, <3>3
  <2> QED
    BY <2>1, <2>2
<1> QED
  BY <1>2, <1>6, <1>7

-----------------------------------------------------------------------------
(* Options *)

ResolvesFrom(f, kind, default, options) ==
    f = [i \in 1 .. Len(options) + 1 |->
            IF i > Len(options) THEN default
            ELSE IF KindOf(options[i]) = kind THEN options[i] ELSE f[i + 1]]

LEMMA ResolveFunction ==
    ASSUME NEW S, NEW options \in Seq(S), NEW kind, NEW default
    PROVE  \E f : ResolvesFrom(f, kind, default, options) /\ Resolve(kind, default, options) = f[1]
<1> DEFINE n == Len(options)
           V == S \cup {default}
           Stops == {i \in 1 .. n + 1 : i > n \/ KindOf(options[i]) = kind}
           base == [i \in 1 .. n + 1 |-> IF i > n THEN default ELSE options[i]]
           next == [i \in 1 .. n + 1 |-> i + 1]
           step == [i \in 1 .. n + 1 |-> [v \in V |-> v]]
<1>1. n \in Nat /\ \A i \in 1 .. n : options[i] \in S
  BY LenProperties, ElementOfSeq
<1>2. Recursion(n, V, Stops, base, next, step)
  <2>1. base \in [1 .. n + 1 -> V] /\ step \in [1 .. n + 1 -> [V -> V]]
    BY <1>1
  <2>2. next \in [1 .. n + 1 -> Int] /\ \A i \in 1 .. n + 1 : i \in Stops \/ (i < next[i] /\ next[i] <= n + 1)
    BY <1>1
  <2> HIDE DEF n, V, Stops, base, next, step
  <2> QED
    BY <1>1, <2>1, <2>2 DEF Recursion
<1>3. PICK f : Solution(f, n, V, Stops, base, next, step)
  <2> HIDE DEF n, V, Stops, base, next, step
  <2> QED
    BY <1>2, Descends
<1>4. ASSUME NEW i \in 1 .. n + 1
      PROVE  f[i] = IF i > n THEN default ELSE IF KindOf(options[i]) = kind THEN options[i] ELSE f[i + 1]
  <2>1. CASE i \in Stops
    BY <1>1, <1>3, <2>1 DEF Solution
  <2>2. CASE i \notin Stops
    <3>1. next[i] = i + 1 /\ i + 1 \in 1 .. n + 1 /\ ~(i > n) /\ KindOf(options[i]) # kind
      BY <1>1, <2>2
    <3>2. f[i + 1] \in V /\ f[i] = step[i][f[i + 1]]
      BY <1>3, <2>2, <3>1 DEF Solution
    <3> QED
      BY <3>1, <3>2
  <2> QED
    BY <2>1, <2>2
<1>5. ResolvesFrom(f, kind, default, options)
  <2> HIDE DEF V, Stops, base, next, step
  <2>1. f \in [1 .. n + 1 -> V]
    BY <1>3 DEF Solution
  <2> QED
    BY <1>4, <2>1 DEF ResolvesFrom
<1> DEFINE g == CHOOSE h : ResolvesFrom(h, kind, default, options)
<1>6. ResolvesFrom(g, kind, default, options)
  BY <1>5
<1>7. Resolve(kind, default, options) = g[1]
  BY DEF Resolve, ResolvesFrom
<1> QED
  BY <1>6, <1>7

\* resolve_opt takes the first option of the kind, and the default if there is none.
LEMMA ResolveTakesFirst ==
    ASSUME NEW S, NEW options \in Seq(S), NEW kind, NEW default
    PROVE  /\ (\A j \in 1 .. Len(options) : KindOf(options[j]) # kind) =>
                  Resolve(kind, default, options) = default
           /\ \A j \in 1 .. Len(options) :
                  /\ KindOf(options[j]) = kind
                  /\ \A k \in 1 .. j - 1 : KindOf(options[k]) # kind
                  => Resolve(kind, default, options) = options[j]
<1> DEFINE n == Len(options)
<1>0. n \in Nat
  BY LenProperties
<1>1. PICK f : ResolvesFrom(f, kind, default, options) /\ Resolve(kind, default, options) = f[1]
  BY ResolveFunction
<1>2. ASSUME NEW i \in 1 .. n + 1
      PROVE  f[i] = IF i > n THEN default ELSE IF KindOf(options[i]) = kind THEN options[i] ELSE f[i + 1]
  BY <1>1 DEF ResolvesFrom
<1>3. ASSUME NEW m \in 1 .. n + 1, \A k \in 1 .. m - 1 : KindOf(options[k]) # kind
      PROVE  f[1] = f[m]
  <2> DEFINE T == {i \in 1 .. m : f[i] # f[m]}
  <2>1. SUFFICES ASSUME T # {} PROVE FALSE
    BY <1>0
  <2>2. PICK i \in T : \A j \in T : j <= i
    <3>1. T \in SUBSET (1 .. m) /\ m \in Nat
      BY <1>0
    <3> HIDE DEF T
    <3> QED
      BY <2>1, <3>1, LastFailure
  <2>3. i \in 1 .. m - 1 /\ f[i + 1] = f[m]
    BY <1>0, <2>2
  <2>4. f[i] = f[i + 1]
    BY <1>0, <1>2, <1>3, <2>3
  <2> QED
    BY <2>2, <2>3, <2>4
<1>4. ASSUME \A j \in 1 .. n : KindOf(options[j]) # kind PROVE f[1] = default
  <2>1. n + 1 \in 1 .. n + 1 /\ \A k \in 1 .. n + 1 - 1 : KindOf(options[k]) # kind
    BY <1>0, <1>4
  <2>2. f[1] = f[n + 1]
    BY <1>3, <2>1
  <2> QED
    BY <1>0, <1>2, <2>1, <2>2
<1>5. ASSUME NEW j \in 1 .. n, KindOf(options[j]) = kind, \A k \in 1 .. j - 1 : KindOf(options[k]) # kind
      PROVE  f[1] = options[j]
  BY <1>0, <1>2, <1>3, <1>5
<1> QED
  BY <1>1, <1>4, <1>5

LEMMA PackIsSequence ==
    ASSUME NEW options, ValidPack(options)
    PROVE  /\ options \in Seq(Seq(STRING)) /\ Len(options) \in Nat
           /\ DOMAIN options = 1 .. Len(options)
           /\ \A i \in 1 .. Len(options) : options[i] \in Seq(STRING)
  BY LenProperties, ElementOfSeq DEF ValidPack

\* In a valid pack it is the option of the kind that is taken, wherever it is.
LEMMA ResolveTakesOnly ==
    ASSUME NEW options, ValidPack(options), NEW kind, NEW default
    PROVE  /\ (\A j \in DOMAIN options : KindOf(options[j]) # kind) =>
                  Resolve(kind, default, options) = default
           /\ \A j \in DOMAIN options :
                  KindOf(options[j]) = kind => Resolve(kind, default, options) = options[j]
<1>1. /\ options \in Seq(Seq(STRING)) /\ Len(options) \in Nat
      /\ DOMAIN options = 1 .. Len(options)
  BY PackIsSequence
<1>2. ASSUME NEW j \in DOMAIN options, KindOf(options[j]) = kind, NEW k \in 1 .. j - 1
      PROVE  KindOf(options[k]) # kind
  <2>1. k \in DOMAIN options /\ k # j
    BY <1>1, <1>2
  <2> QED
    BY <1>2, <2>1 DEF ValidPack
<1>3. ASSUME NEW j \in DOMAIN options, KindOf(options[j]) = kind
      PROVE  Resolve(kind, default, options) = options[j]
  BY <1>1, <1>2, <1>3, ResolveTakesFirst
<1> QED
  BY <1>1, <1>3, ResolveTakesFirst

LEMMA Kinds ==
    /\ KindOf(SingleThreaded) = "runtime_mode" /\ KindOf(Threadsafe) = "runtime_mode"
    /\ KindOf(Drop) = "overflow" /\ KindOf(Truncate) = "overflow"
    /\ KindOf(NormalPages) = "huge_pages" /\ KindOf(HugePages) = "huge_pages"
  BY DEF KindOf, Option, SingleThreaded, Threadsafe, Drop, Truncate, NormalPages, HugePages

\* A channel either drops or truncates what does not fit.
LEMMA OverflowKnown ==
    ASSUME NEW options, ValidPack(options)
    PROVE  OverflowType(options) \in {Drop, Truncate}
<1>1. ASSUME NEW j \in DOMAIN options, KindOf(options[j]) = "overflow"
      PROVE  options[j] \in {Drop, Truncate}
  <2>1. ChannelOption(options[j])
    BY DEF ValidPack
  <2> QED
    BY <1>1, <2>1, Kinds DEF ChannelOption
<1> QED
  BY <1>1, ResolveTakesOnly DEF OverflowType

\* Among finitely many places, as many options as places fill each of them.
LEMMA Permutation ==
    ASSUME NEW n \in Nat, NEW p \in [1 .. n -> 1 .. n],
           \A i, j \in 1 .. n : p[i] = p[j] => i = j
    PROVE  \A j \in 1 .. n : \E i \in 1 .. n : p[i] = j
<1>1. IsFiniteSet(1 .. n)
  BY FS_Interval
<1>2. p \in Injection(1 .. n, 1 .. n)
  BY Fun_IsInj
<1>3. p \in Surjection(1 .. n, 1 .. n)
  BY <1>1, <1>2, FS_Injection
<1> QED
  BY <1>3 DEF Surjection

LEMMA ResolvePermuted ==
    ASSUME NEW options, ValidPack(options), NEW kind, NEW default,
           NEW p \in [DOMAIN options -> DOMAIN options],
           \A i, j \in DOMAIN options : p[i] = p[j] => i = j
    PROVE  Resolve(kind, default, [i \in DOMAIN options |-> options[p[i]]])
              = Resolve(kind, default, options)
<1> DEFINE permuted == [i \in DOMAIN options |-> options[p[i]]]
<1>1. /\ options \in Seq(Seq(STRING)) /\ Len(options) \in Nat
      /\ DOMAIN options = 1 .. Len(options)
      /\ \A i \in DOMAIN options : options[i] \in Seq(STRING)
  BY PackIsSequence
<1>2. permuted \in Seq(Seq(STRING))
  BY <1>1
<1>3. ValidPack(permuted)
  BY <1>1, <1>2 DEF ValidPack
<1>4. \A j \in DOMAIN options : \E i \in DOMAIN options : p[i] = j
  <2> DEFINE n == Len(options)
  <2>1. n \in Nat /\ DOMAIN options = 1 .. n
    BY <1>1
  <2> HIDE DEF n
  <2>2. p \in [1 .. n -> 1 .. n] /\ \A i, j \in 1 .. n : p[i] = p[j] => i = j
    BY <2>1
  <2>3. \A j \in 1 .. n : \E i \in 1 .. n : p[i] = j
    BY <2>1, <2>2, Permutation
  <2> QED
    BY <2>1, <2>3
<1>5. DOMAIN permuted = DOMAIN options /\ \A i \in DOMAIN options : permuted[i] = options[p[i]]
  OBVIOUS
<1> HIDE DEF permuted
<1>6. CASE \A j \in DOMAIN options : KindOf(options[j]) # kind
  <2>1. \A j \in DOMAIN permuted : KindOf(permuted[j]) # kind
    BY <1>5, <1>6
  <2> QED
    BY <1>3, <1>6, <2>1, ResolveTakesOnly DEF permuted
<1>7. ASSUME NEW j \in DOMAIN options, KindOf(options[j]) = kind
      PROVE  Resolve(kind, default, permuted) = Resolve(kind, default, options)
  <2>1. PICK i \in DOMAIN options : p[i] = j
    BY <1>4
  <2>2. i \in DOMAIN permuted /\ permuted[i] = options[j]
    BY <1>5, <2>1
  <2> QED
    BY <1>3, <1>7, <2>2, ResolveTakesOnly
<1> QED
  BY <1>6, <1>7 DEF permuted

LEMMA ResolveAppended ==
    ASSUME NEW options, ValidPack(options), NEW kind, NEW default, NEW option,
           ValidPack(Append(options, option)), KindOf(option) = kind => option = default
    PROVE  Resolve(kind, default, Append(options, option)) = Resolve(kind, default, options)
<1> DEFINE longer == Append(options, option)
           n == Len(options)
<1>1. options \in Seq(Seq(STRING)) /\ n \in Nat /\ DOMAIN options = 1 .. n
  BY PackIsSequence
<1>2. longer \in Seq(Seq(STRING)) /\ DOMAIN longer = 1 .. Len(longer)
  BY PackIsSequence
<1>3. Len(longer) = n + 1 /\ longer[n + 1] = option /\ \A i \in 1 .. n : longer[i] = options[i]
  BY <1>1
<1> HIDE DEF longer, n
<1>4. ValidPack(longer)
  BY DEF longer
<1>5. ASSUME NEW j \in 1 .. n, KindOf(options[j]) = kind
      PROVE  Resolve(kind, default, longer) = Resolve(kind, default, options)
  <2>1. j \in DOMAIN longer /\ longer[j] = options[j] /\ j \in DOMAIN options
    BY <1>1, <1>2, <1>3
  <2> QED
    BY <1>4, <1>5, <2>1, ResolveTakesOnly
<1>6. CASE (\A j \in 1 .. n : KindOf(options[j]) # kind) /\ KindOf(option) = kind
  <2>1. n + 1 \in DOMAIN longer /\ KindOf(longer[n + 1]) = kind
    BY <1>1, <1>2, <1>3, <1>6
  <2>2. Resolve(kind, default, longer) = default
    BY <1>3, <1>4, <1>6, <2>1, ResolveTakesOnly
  <2>3. \A j \in DOMAIN options : KindOf(options[j]) # kind
    BY <1>1, <1>6
  <2>4. Resolve(kind, default, options) = default
    BY <2>3, ResolveTakesOnly
  <2> QED
    BY <2>2, <2>4 DEF longer
<1>7. CASE (\A j \in 1 .. n : KindOf(options[j]) # kind) /\ KindOf(option) # kind
  <2>1. \A j \in DOMAIN longer : KindOf(longer[j]) # kind
    BY <1>1, <1>2, <1>3, <1>7
  <2>2. \A j \in DOMAIN options : KindOf(options[j]) # kind
    BY <1>1, <1>7
  <2>3. Resolve(kind, default, longer) = default
    BY <1>4, <2>1, ResolveTakesOnly
  <2>4. Resolve(kind, default, options) = default
    BY <2>2, ResolveTakesOnly
  <2> QED
    BY <2>3, <2>4 DEF longer
<1> QED
  BY <1>5, <1>6, <1>7 DEF longer

\* Options may be written in any order, and a default may be named or left out
\* (resolve_opt_t, resolve_pattern_opt_t).
THEOREM OrderIsFree ==
    ASSUME NEW options, ValidPack(options), NEW color
    PROVE  OrderFree(options, color)
<1>1. ASSUME NEW p \in [DOMAIN options -> DOMAIN options],
             \A i, j \in DOMAIN options : p[i] = p[j] => i = j
      PROVE  Resolved([i \in DOMAIN options |-> options[p[i]]], color) = Resolved(options, color)
  <2> DEFINE permuted == [i \in DOMAIN options |-> options[p[i]]]
  <2>1. \A kind, default : Resolve(kind, default, permuted) = Resolve(kind, default, options)
    BY <1>1, ResolvePermuted
  <2> HIDE DEF permuted
  <2>2. Resolved(permuted, color) = Resolved(options, color)
    BY <2>1 DEF Resolved, RuntimeModeType, OverflowType, HugePagesType, CaptureText, Program,
                UsesDefault, PatternType
  <2> QED
    BY <2>2 DEF permuted
<1>2. ASSUME NEW default \in {SingleThreaded, Drop, NormalPages}, ValidPack(Append(options, default))
      PROVE  Resolved(Append(options, default), color) = Resolved(options, color)
  <2> DEFINE longer == Append(options, default)
  <2>1. \A kind, other : (KindOf(default) = kind => default = other) =>
            Resolve(kind, other, longer) = Resolve(kind, other, options)
    BY <1>2, ResolveAppended
  <2>2. /\ KindOf(default) = "runtime_mode" => default = SingleThreaded
        /\ KindOf(default) = "overflow" => default = Drop
        /\ KindOf(default) = "huge_pages" => default = NormalPages
        /\ KindOf(default) # "pattern"
    BY <1>2, Kinds
  <2> HIDE DEF longer
  <2>3. /\ RuntimeModeType(longer) = RuntimeModeType(options)
        /\ OverflowType(longer) = OverflowType(options)
        /\ HugePagesType(longer) = HugePagesType(options)
        /\ PatternType(longer) = PatternType(options)
    BY <2>1, <2>2 DEF RuntimeModeType, OverflowType, HugePagesType, PatternType
  <2>4. Resolved(longer, color) = Resolved(options, color)
    BY <2>3 DEF Resolved, CaptureText, Program, UsesDefault
  <2> QED
    BY <2>4 DEF longer
<1> QED
  BY <1>1, <1>2 DEF OrderFree

-----------------------------------------------------------------------------
(* Patterns *)

\* A pattern's text may consist of any characters.
Chars(text) == {text[k] : k \in 1 .. Len(text)}
IsText(text) == text \in Seq(Chars(text))

LEMMA SeqIsText ==
    ASSUME NEW S, NEW text \in Seq(S)
    PROVE  IsText(text)
<1>1. Len(text) \in Nat /\ text = [k \in 1 .. Len(text) |-> text[k]]
  BY LenProperties, SeqDef
<1>2. \A k \in 1 .. Len(text) : text[k] \in Chars(text)
  BY DEF Chars
<1> DEFINE n == Len(text)
           G(k) == text[k]
           C == Chars(text)
<1> HIDE DEF n, C
<1>3. n \in Nat /\ \A k \in 1 .. n : G(k) \in C
  BY <1>1, <1>2 DEF n, C
<1>4. [k \in 1 .. n |-> G(k)] \in Seq(C)
  BY <1>3, IsASeq
<1> QED
  BY <1>1, <1>4 DEF IsText, n, C

LEMMA TextFacts ==
    ASSUME NEW text, IsText(text)
    PROVE  Len(text) \in Nat /\ \A i \in 1 .. Len(text) : text[i] \in Chars(text)
  BY LenProperties, ElementOfSeq DEF IsText

LEMMA NextPercentFound ==
    ASSUME NEW text, IsText(text), NEW i \in 1 .. Len(text) + 1
    PROVE  /\ NextPercent(text, i) \in i .. Len(text) + 1
           /\ NextPercent(text, i) = Len(text) + 1 \/ text[NextPercent(text, i)] = "%"
           /\ \A k \in i .. NextPercent(text, i) - 1 : text[k] # "%"
<1> DEFINE n == Len(text)
           T == {j \in i .. n + 1 : j = n + 1 \/ text[j] = "%"}
<1>1. n \in Nat /\ i \in Nat
  BY TextFacts
<1>2. PICK j \in T : \A k \in T : j <= k
  <2>1. n + 1 \in T /\ T \in SUBSET Nat
    BY <1>1
  <2> HIDE DEF T
  <2> QED
    BY <2>1, LeastNumber
<1>3. /\ j \in i .. n + 1 /\ (j = n + 1 \/ text[j] = "%")
      /\ \A k \in i .. j - 1 : text[k] # "%"
  BY <1>1, <1>2
<1> HIDE DEF T
<1> QED
  BY <1>3 DEF NextPercent

LEMMA NextPercentHere ==
    ASSUME NEW text, IsText(text), NEW i \in 1 .. Len(text)
    PROVE  /\ text[i] = "%" => NextPercent(text, i) = i
           /\ text[i] # "%" => NextPercent(text, i) = NextPercent(text, i + 1)
<1> DEFINE n == Len(text)
           j == NextPercent(text, i)
           l == NextPercent(text, i + 1)
<1>1. n \in Nat /\ i \in 1 .. n + 1 /\ i + 1 \in 1 .. n + 1
  BY TextFacts
<1>2. j \in i .. n + 1 /\ (j = n + 1 \/ text[j] = "%") /\ \A k \in i .. j - 1 : text[k] # "%"
  BY <1>1, NextPercentFound
<1>3. l \in i + 1 .. n + 1 /\ (l = n + 1 \/ text[l] = "%") /\ \A k \in i + 1 .. l - 1 : text[k] # "%"
  BY <1>1, NextPercentFound
<1> HIDE DEF n, j, l
<1>4. text[i] = "%" => j = i
  BY <1>1, <1>2
<1>5. ASSUME text[i] # "%" PROVE j = l
  <2>1. j # i
    BY <1>1, <1>2, <1>5 DEF n
  <2>2. ~(j < l)
    BY <1>1, <1>2, <1>3, <2>1
  <2>3. ~(l < j)
    BY <1>1, <1>2, <1>3
  <2> QED
    BY <1>1, <1>2, <1>3, <2>2, <2>3
<1> QED
  BY <1>4, <1>5 DEF j, l

EscapesFrom(f, text) ==
    f = [i \in 1 .. Len(text) + 1 |->
            IF i >= Len(text) THEN {}
            ELSE IF text[i] # "%" THEN f[i + 1]
            ELSE {text[i + 1]} \cup f[i + 2]]

LEMMA EscapesFunction ==
    ASSUME NEW text, IsText(text)
    PROVE  \E f : EscapesFrom(f, text) /\ Escapes(text) = f[1]
<1> DEFINE n == Len(text)
           V == SUBSET Chars(text)
           Stops == {i \in 1 .. n + 1 : i >= n}
           base == [i \in 1 .. n + 1 |-> {}]
           next == [i \in 1 .. n + 1 |-> IF text[i] # "%" THEN i + 1 ELSE i + 2]
           step == [i \in 1 .. n + 1 |->
                        [v \in V |-> IF i < n /\ text[i] = "%" THEN {text[i + 1]} \cup v ELSE v]]
<1>1. n \in Nat /\ \A i \in 1 .. n : text[i] \in Chars(text)
  BY TextFacts
<1>2. Recursion(n, V, Stops, base, next, step)
  <2>1. base \in [1 .. n + 1 -> V]
    OBVIOUS
  <2>2. next \in [1 .. n + 1 -> Int] /\ \A i \in 1 .. n + 1 : i \in Stops \/ (i < next[i] /\ next[i] <= n + 1)
    BY <1>1
  <2>3. step \in [1 .. n + 1 -> [V -> V]]
    <3>1. ASSUME NEW i \in 1 .. n + 1, NEW v \in V
          PROVE  (IF i < n /\ text[i] = "%" THEN {text[i + 1]} \cup v ELSE v) \in V
      <4>1. i < n => text[i + 1] \in Chars(text)
        BY <1>1
      <4> QED
        BY <4>1
    <3> HIDE DEF V
    <3> QED
      BY <3>1
  <2> HIDE DEF n, V, Stops, base, next, step
  <2> QED
    BY <1>1, <2>1, <2>2, <2>3 DEF Recursion
<1>3. PICK f : Solution(f, n, V, Stops, base, next, step)
  <2> HIDE DEF n, V, Stops, base, next, step
  <2> QED
    BY <1>2, Descends
<1>4. f \in [1 .. n + 1 -> V]
  BY <1>3 DEF Solution
<1>5. ASSUME NEW i \in 1 .. n + 1
      PROVE  f[i] = IF i >= n THEN {} ELSE IF text[i] # "%" THEN f[i + 1] ELSE {text[i + 1]} \cup f[i + 2]
  <2>1. CASE i \in Stops
    BY <1>1, <1>3, <2>1 DEF Solution
  <2>2. CASE i \notin Stops
    <3>1. next[i] \in 1 .. n + 1 /\ i < n
      BY <1>1, <2>2
    <3>2. f[next[i]] \in V /\ f[i] = step[i][f[next[i]]]
      <4> HIDE DEF V, Stops, next, step
      <4> QED
        BY <1>3, <1>4, <2>2, <3>1 DEF Solution
    <3>3. CASE text[i] # "%"
      <4> HIDE DEF V
      <4> QED
        BY <1>1, <3>1, <3>2, <3>3
    <3>4. CASE text[i] = "%"
      <4>1. next[i] = i + 2 /\ f[i + 2] \in V /\ f[i] = step[i][f[i + 2]]
        BY <3>2, <3>4
      <4>2. \A v \in V : step[i][v] = {text[i + 1]} \cup v
        BY <3>1, <3>4
      <4>3. ~ (i >= n)
        BY <1>1, <3>1
      <4> HIDE DEF V, n, step, next
      <4>4. f[i] = {text[i + 1]} \cup f[i + 2]
        BY <4>1, <4>2
      <4> QED
        BY <3>4, <4>3, <4>4
    <3> QED
      BY <3>3, <3>4
  <2> QED
    BY <2>1, <2>2
<1>6. EscapesFrom(f, text)
  <2> HIDE DEF V
  <2> QED
    BY <1>4, <1>5 DEF EscapesFrom
<1> DEFINE g == CHOOSE h : EscapesFrom(h, text)
<1>7. EscapesFrom(g, text)
  BY <1>6
<1>8. Escapes(text) = g[1]
  BY DEF Escapes, EscapesFrom
<1> QED
  BY <1>7, <1>8

\* the pieces that a text may be compiled to
Piece(text) ==
    {p \in [token : Known \cup {"literal"}, offset : Nat, size : Nat] :
        p.token = "literal" => p.offset >= 1 /\ p.offset + p.size <= Len(text) + 1}

LEMMA LiteralFacts ==
    ASSUME NEW text, IsText(text), NEW offset \in Nat, offset >= 1, NEW size \in Nat,
           offset + size <= Len(text) + 1
    PROVE  /\ Literal(offset, size) \in Seq(Piece(text))
           /\ Len(Literal(offset, size)) = One(size # 0)
           /\ \A k \in 1 .. Len(Literal(offset, size)) : Literal(offset, size)[k].token = "literal"
<1> DEFINE piece == [token |-> "literal", offset |-> offset, size |-> size]
<1>1. piece \in Piece(text) /\ piece.token = "literal"
  <2>1. piece \in [token : Known \cup {"literal"}, offset : Nat, size : Nat]
    OBVIOUS
  <2>2. piece.offset = offset /\ piece.size = size /\ piece.token = "literal"
    OBVIOUS
  <2> HIDE DEF piece
  <2> QED
    BY <2>1, <2>2 DEF Piece
<1> HIDE DEF piece
<1>2. CASE size = 0
  BY <1>2 DEF Literal, One
<1>3. CASE size # 0
  <2>1. Literal(offset, size) = <<piece>>
    BY <1>3 DEF Literal, piece
  <2> QED
    BY <1>1, <1>3, <2>1 DEF One
<1> QED
  BY <1>2, <1>3

LEMMA DirectiveFacts ==
    ASSUME NEW text, IsText(text), NEW j \in 1 .. Len(text) - 1
    PROVE  \E piece \in Piece(text) :
              /\ Directive(text, j) = <<piece>>
              /\ IF text[j + 1] \in Known
                 THEN piece = [token |-> text[j + 1], offset |-> 0, size |-> 0]
                 ELSE piece = [token |-> "literal", offset |-> j, size |-> 2]
<1>1. Len(text) \in Nat /\ text[j + 1] \in Chars(text)
  BY TextFacts
<1>2. CASE text[j + 1] \in Known
  <2> DEFINE piece == [token |-> text[j + 1], offset |-> 0, size |-> 0]
  <2>1. piece \in Piece(text)
    <3>1. piece \in [token : Known \cup {"literal"}, offset : Nat, size : Nat]
      BY <1>2
    <3>2. piece.token = text[j + 1] /\ "literal" \notin Known
      BY DEF Known
    <3>3. piece.token # "literal"
      BY <1>2, <3>2
    <3> HIDE DEF piece
    <3> QED
      BY <3>1, <3>3 DEF Piece
  <2> QED
    BY <1>2, <2>1 DEF Directive
<1>3. CASE text[j + 1] \notin Known
  <2> DEFINE piece == [token |-> "literal", offset |-> j, size |-> 2]
  <2>1. piece \in Piece(text)
    <3>1. piece \in [token : Known \cup {"literal"}, offset : Nat, size : Nat]
      BY <1>1
    <3>2. piece.offset = j /\ piece.size = 2 /\ j + 2 <= Len(text) + 1
      BY <1>1
    <3> HIDE DEF piece
    <3> QED
      BY <3>1, <3>2 DEF Piece
  <2> QED
    BY <1>3, <2>1 DEF Directive, Literal
<1> QED
  BY <1>2, <1>3

CompilesFrom(f, text) ==
    f = [i \in 1 .. Len(text) + 1 |->
            LET j == NextPercent(text, i) IN
            IF j > Len(text) THEN Literal(i, Len(text) + 1 - i)
            ELSE IF j = Len(text) THEN Literal(i, Len(text) - i) \o Literal(Len(text), 1)
            ELSE Literal(i, j - i) \o Directive(text, j) \o f[j + 2]]

LEMMA CompileFunction ==
    ASSUME NEW text, IsText(text)
    PROVE  \E f \in [1 .. Len(text) + 1 -> Seq(Piece(text))] : CompilesFrom(f, text) /\ Compile(text) = f[1]
<1> DEFINE n == Len(text)
           V == Seq(Piece(text))
           P(i) == NextPercent(text, i)
           Stops == {i \in 1 .. n + 1 : P(i) >= n}
           base == [i \in 1 .. n + 1 |->
                        IF P(i) > n THEN Literal(i, n + 1 - i)
                        ELSE IF P(i) = n THEN Literal(i, n - i) \o Literal(n, 1) ELSE <<>>]
           next == [i \in 1 .. n + 1 |-> P(i) + 2]
           step == [i \in 1 .. n + 1 |->
                        [v \in V |-> IF P(i) < n THEN Literal(i, P(i) - i) \o Directive(text, P(i)) \o v ELSE v]]
<1>1. n \in Nat /\ \A i \in 1 .. n + 1 : P(i) \in i .. n + 1
  BY TextFacts, NextPercentFound
<1>2. ASSUME NEW i \in 1 .. n + 1
      PROVE  /\ P(i) > n => Literal(i, n + 1 - i) \in V
             /\ P(i) = n => Literal(i, n - i) \o Literal(n, 1) \in V
             /\ P(i) < n => Literal(i, P(i) - i) \o Directive(text, P(i)) \in V
  <2>1. P(i) \in i .. n + 1 /\ i \in Nat /\ i >= 1
    BY <1>1
  <2>2. CASE P(i) > n
    <3>1. n + 1 - i \in Nat /\ i + (n + 1 - i) <= n + 1
      BY <1>1, <2>1
    <3>2. Literal(i, n + 1 - i) \in V
      BY <2>1, <3>1, LiteralFacts
    <3> QED
      BY <1>1, <2>2, <3>2
  <2>3. CASE P(i) = n
    <3>1. n - i \in Nat /\ i + (n - i) <= n + 1 /\ n >= 1
      BY <1>1, <2>1, <2>3
    <3>2. Literal(i, n - i) \in V
      BY <2>1, <3>1, LiteralFacts
    <3>3. Literal(n, 1) \in V
      <4>1. n \in Nat /\ 1 \in Nat /\ n >= 1 /\ n + 1 <= n + 1
        BY <1>1, <3>1
      <4> QED
        BY <4>1, LiteralFacts
    <3> QED
      BY <1>1, <2>3, <3>2, <3>3
  <2>4. CASE P(i) < n
    <3>1. P(i) - i \in Nat /\ i + (P(i) - i) <= n + 1 /\ P(i) \in 1 .. n - 1
      BY <1>1, <2>1, <2>4
    <3>2. Literal(i, P(i) - i) \in V
      BY <2>1, <3>1, LiteralFacts
    <3>3. PICK piece \in Piece(text) : Directive(text, P(i)) = <<piece>>
      BY <3>1, DirectiveFacts
    <3>4. Directive(text, P(i)) \in V
      BY <3>3
    <3> QED
      BY <1>1, <2>4, <3>2, <3>4
  <2> QED
    BY <1>1, <2>1, <2>2, <2>3, <2>4
<1> HIDE DEF P
<1>3. Recursion(n, V, Stops, base, next, step)
  <2>1. base \in [1 .. n + 1 -> V]
    BY <1>1, <1>2
  <2>2. next \in [1 .. n + 1 -> Int] /\ \A i \in 1 .. n + 1 : i \in Stops \/ (i < next[i] /\ next[i] <= n + 1)
    BY <1>1
  <2>3. step \in [1 .. n + 1 -> [V -> V]]
    <3>1. ASSUME NEW i \in 1 .. n + 1, NEW v \in V
          PROVE  (IF P(i) < n THEN Literal(i, P(i) - i) \o Directive(text, P(i)) \o v ELSE v) \in V
      BY <1>2
    <3> HIDE DEF V
    <3> QED
      BY <3>1
  <2> HIDE DEF n, V, Stops, base, next, step
  <2> QED
    BY <1>1, <2>1, <2>2, <2>3 DEF Recursion
<1>4. PICK f : Solution(f, n, V, Stops, base, next, step)
  <2> HIDE DEF n, V, Stops, base, next, step
  <2> QED
    BY <1>3, Descends
<1>5. f \in [1 .. n + 1 -> V]
  BY <1>4 DEF Solution
<1>6. ASSUME NEW i \in 1 .. n + 1
      PROVE  f[i] = IF P(i) > n THEN Literal(i, n + 1 - i)
                     ELSE IF P(i) = n THEN Literal(i, n - i) \o Literal(n, 1)
                     ELSE Literal(i, P(i) - i) \o Directive(text, P(i)) \o f[P(i) + 2]
  <2>1. P(i) \in Int /\ n \in Int
    BY <1>1
  <2>2. CASE P(i) >= n
    <3>1. f[i] = base[i]
      <4> HIDE DEF base, next, step, V
      <4> QED
        BY <1>4, <2>2 DEF Solution
    <3> QED
      BY <2>1, <2>2, <3>1
  <2>3. CASE P(i) < n
    <3>1. next[i] = P(i) + 2 /\ next[i] \in 1 .. n + 1 /\ i \notin Stops
      BY <1>1, <2>1, <2>3
    <3>2. f[P(i) + 2] \in V /\ f[i] = step[i][f[P(i) + 2]]
      <4> HIDE DEF V, Stops, next, step
      <4> QED
        BY <1>4, <1>5, <3>1 DEF Solution
    <3>3. \A v \in V : step[i][v] = Literal(i, P(i) - i) \o Directive(text, P(i)) \o v
      BY <2>3
    <3> HIDE DEF V, step, next
    <3>4. f[i] = Literal(i, P(i) - i) \o Directive(text, P(i)) \o f[P(i) + 2]
      BY <3>2, <3>3
    <3>5. ~ (P(i) > n) /\ P(i) # n
      BY <2>1, <2>3
    <3> HIDE DEF n
    <3> QED
      BY <3>4, <3>5
  <2> QED
    BY <2>1, <2>2, <2>3
<1>7. CompilesFrom(f, text)
  <2> HIDE DEF V
  <2> QED
    BY <1>5, <1>6 DEF CompilesFrom, P
<1> DEFINE g == CHOOSE h : CompilesFrom(h, text)
<1>8. CompilesFrom(g, text)
  BY <1>7
<1>9. Compile(text) = g[1]
  BY DEF Compile, CompilesFrom
<1>10. ASSUME NEW i \in 1 .. n + 1
       PROVE  g[i] = IF P(i) > n THEN Literal(i, n + 1 - i)
                      ELSE IF P(i) = n THEN Literal(i, n - i) \o Literal(n, 1)
                      ELSE Literal(i, P(i) - i) \o Directive(text, P(i)) \o g[P(i) + 2]
  <2> HIDE DEF g
  <2> QED
    BY <1>8 DEF CompilesFrom, P
<1>11. ASSUME NEW i \in 1 .. n + 1, P(i) < n => g[P(i) + 2] \in V
       PROVE  g[i] \in V
  <2> HIDE DEF g
  <2>1. P(i) \in Int /\ n \in Int
    BY <1>1
  <2>2. CASE P(i) > n
    BY <1>2, <1>10, <2>1, <2>2
  <2>3. CASE P(i) = n
    BY <1>2, <1>10, <2>1, <2>3
  <2>4. CASE P(i) < n
    <3>0. ~ (P(i) > n) /\ P(i) # n
      BY <2>1, <2>4
    <3> HIDE DEF n
    <3>1. g[i] = Literal(i, P(i) - i) \o Directive(text, P(i)) \o g[P(i) + 2]
      BY <1>10, <3>0
    <3> QED
      BY <1>2, <1>11, <2>4, <3>1 DEF n
  <2> QED
    BY <2>1, <2>2, <2>3, <2>4
<1>12. \A i \in 1 .. n + 1 : g[i] \in V
  <2> DEFINE T == {i \in 1 .. n + 1 : g[i] \notin V}
  <2> HIDE DEF g, V
  <2>1. SUFFICES ASSUME T # {} PROVE FALSE
    OBVIOUS
  <2>2. PICK i \in T : \A k \in T : k <= i
    <3>1. T \in SUBSET (1 .. n + 1) /\ n + 1 \in Nat
      BY <1>1
    <3> HIDE DEF T
    <3> QED
      BY <2>1, <3>1, LastFailure
  <2>3. P(i) < n => g[P(i) + 2] \in V
    BY <1>1, <2>2
  <2> QED
    BY <1>11, <2>2, <2>3
<1>13. g \in [1 .. n + 1 -> V]
  <2>1. g = [i \in 1 .. n + 1 |-> g[i]]
    <3> HIDE DEF g
    <3> QED
      BY <1>8 DEF CompilesFrom
  <2> HIDE DEF g, V
  <2> QED
    BY <1>12, <2>1
<1> QED
  BY <1>8, <1>9, <1>13

CountsFrom(f, text) ==
    f = [i \in 1 .. Len(text) + 1 |->
            LET j == NextPercent(text, i) IN
            IF j > Len(text) THEN One(i # Len(text) + 1)
            ELSE One(i # j) + 1 + IF j = Len(text) THEN 0 ELSE f[j + 2]]

LEMMA PieceCountFunction ==
    ASSUME NEW text, IsText(text)
    PROVE  \E f : CountsFrom(f, text) /\ PieceCount(text) = f[1]
<1> DEFINE n == Len(text)
           P(i) == NextPercent(text, i)
           Stops == {i \in 1 .. n + 1 : P(i) >= n}
           base == [i \in 1 .. n + 1 |-> IF P(i) > n THEN One(i # n + 1) ELSE One(i # P(i)) + 1]
           next == [i \in 1 .. n + 1 |-> P(i) + 2]
           step == [i \in 1 .. n + 1 |-> [v \in Nat |-> One(i # P(i)) + 1 + v]]
<1>1. n \in Nat /\ \A i \in 1 .. n + 1 : P(i) \in i .. n + 1
  BY TextFacts, NextPercentFound
<1>2. \A i \in 1 .. n + 1 : One(i # n + 1) \in Nat /\ One(i # P(i)) \in Nat
  BY DEF One
<1> HIDE DEF P
<1>3. Recursion(n, Nat, Stops, base, next, step)
  <2>1. base \in [1 .. n + 1 -> Nat]
    BY <1>2
  <2>2. next \in [1 .. n + 1 -> Int] /\ \A i \in 1 .. n + 1 : i \in Stops \/ (i < next[i] /\ next[i] <= n + 1)
    BY <1>1
  <2>3. step \in [1 .. n + 1 -> [Nat -> Nat]]
    BY <1>2
  <2> HIDE DEF n, Stops, base, next, step
  <2> QED
    BY <1>1, <2>1, <2>2, <2>3 DEF Recursion
<1>4. PICK f : Solution(f, n, Nat, Stops, base, next, step)
  <2> HIDE DEF n, Stops, base, next, step
  <2> QED
    BY <1>3, Descends
<1>5. f \in [1 .. n + 1 -> Nat]
  BY <1>4 DEF Solution
<1>6. ASSUME NEW i \in 1 .. n + 1
      PROVE  f[i] = IF P(i) > n THEN One(i # n + 1)
                    ELSE One(i # P(i)) + 1 + IF P(i) = n THEN 0 ELSE f[P(i) + 2]
  <2>1. P(i) \in Int /\ n \in Int /\ One(i # P(i)) \in Nat
    BY <1>1, <1>2
  <2>2. CASE P(i) >= n
    <3>1. f[i] = base[i]
      <4> HIDE DEF base, next, step
      <4> QED
        BY <1>4, <2>2 DEF Solution
    <3> QED
      BY <2>1, <2>2, <3>1
  <2>3. CASE P(i) < n
    <3>1. next[i] = P(i) + 2 /\ next[i] \in 1 .. n + 1 /\ i \notin Stops
      BY <1>1, <2>1, <2>3
    <3>2. f[P(i) + 2] \in Nat /\ f[i] = step[i][f[P(i) + 2]]
      <4> HIDE DEF Stops, next, step
      <4> QED
        BY <1>4, <1>5, <3>1 DEF Solution
    <3>3. \A v \in Nat : step[i][v] = One(i # P(i)) + 1 + v
      OBVIOUS
    <3>4. ~ (P(i) > n) /\ P(i) # n
      BY <2>1, <2>3
    <3> HIDE DEF step, next, n
    <3> QED
      BY <3>2, <3>3, <3>4
  <2> QED
    BY <2>1, <2>2, <2>3
<1>7. CountsFrom(f, text)
  BY <1>5, <1>6 DEF CountsFrom, P
<1> DEFINE g == CHOOSE h : CountsFrom(h, text)
<1>8. CountsFrom(g, text)
  BY <1>7
<1>9. PieceCount(text) = g[1]
  BY DEF PieceCount, CountsFrom
<1> QED
  BY <1>8, <1>9

\* The array that compile_pattern fills is as long as the pieces it writes.
THEOREM CompileFills ==
    ASSUME NEW text, IsText(text)
    PROVE  Compile(text) \in Seq(Piece(text)) /\ Len(Compile(text)) = PieceCount(text)
<1> DEFINE n == Len(text)
           P(i) == NextPercent(text, i)
<1>1. n \in Nat /\ \A i \in 1 .. n + 1 : P(i) \in i .. n + 1
  BY TextFacts, NextPercentFound
<1>2. PICK f \in [1 .. n + 1 -> Seq(Piece(text))] : CompilesFrom(f, text) /\ Compile(text) = f[1]
  BY CompileFunction
<1>3. PICK g : CountsFrom(g, text) /\ PieceCount(text) = g[1]
  BY PieceCountFunction
<1>4. ASSUME NEW i \in 1 .. n + 1
      PROVE  /\ f[i] = IF P(i) > n THEN Literal(i, n + 1 - i)
                       ELSE IF P(i) = n THEN Literal(i, n - i) \o Literal(n, 1)
                       ELSE Literal(i, P(i) - i) \o Directive(text, P(i)) \o f[P(i) + 2]
             /\ g[i] = IF P(i) > n THEN One(i # n + 1)
                       ELSE One(i # P(i)) + 1 + IF P(i) = n THEN 0 ELSE g[P(i) + 2]
  BY <1>2, <1>3 DEF CompilesFrom, CountsFrom
<1> HIDE DEF P
<1>5. ASSUME NEW i \in 1 .. n + 1, P(i) < n => Len(f[P(i) + 2]) = g[P(i) + 2]
      PROVE  Len(f[i]) = g[i]
  <2>1. P(i) \in i .. n + 1 /\ i \in Nat /\ i >= 1
    BY <1>1
  <2>2. CASE P(i) > n
    <3>1. n + 1 - i \in Nat /\ i + (n + 1 - i) <= n + 1
      BY <1>1, <2>1
    <3>2. Len(Literal(i, n + 1 - i)) = One(n + 1 - i # 0)
      BY <2>1, <3>1, LiteralFacts
    <3>3. f[i] = Literal(i, n + 1 - i) /\ g[i] = One(i # n + 1)
      BY <1>4, <2>2
    <3> QED
      BY <1>1, <2>1, <3>2, <3>3 DEF One
  <2>3. CASE P(i) = n
    <3>1. n - i \in Nat /\ i + (n - i) <= n + 1 /\ n >= 1
      BY <1>1, <2>1, <2>3
    <3>2. Literal(i, n - i) \in Seq(Piece(text)) /\ Len(Literal(i, n - i)) = One(n - i # 0)
      BY <2>1, <3>1, LiteralFacts
    <3>3. Literal(n, 1) \in Seq(Piece(text)) /\ Len(Literal(n, 1)) = One(1 # 0)
      <4>1. n \in Nat /\ 1 \in Nat /\ n >= 1 /\ n + 1 <= n + 1
        BY <1>1, <3>1
      <4> QED
        BY <4>1, LiteralFacts
    <3>4. f[i] = Literal(i, n - i) \o Literal(n, 1) /\ g[i] = One(i # n) + 1 + 0
      <4>1. ~ (P(i) > n)
        BY <1>1, <2>1, <2>3
      <4> QED
        BY <1>4, <2>3, <4>1
    <3>5. Len(f[i]) = Len(Literal(i, n - i)) + Len(Literal(n, 1))
      BY <3>2, <3>3, <3>4, ConcatProperties
    <3>6. One(n - i # 0) = One(i # n) /\ One(1 # 0) = 1 /\ One(i # n) \in Nat
      BY <1>1, <2>1 DEF One
    <3> QED
      BY <3>2, <3>3, <3>4, <3>5, <3>6
  <2>4. CASE P(i) < n
    <3>1. P(i) - i \in Nat /\ i + (P(i) - i) <= n + 1 /\ P(i) \in 1 .. n - 1 /\ P(i) + 2 \in 1 .. n + 1
      <4>1. PICK p : p = P(i)
        OBVIOUS
      <4>2. n \in Nat /\ i \in Nat /\ p \in Nat /\ 1 <= i /\ i <= p /\ p < n
        BY <1>1, <2>1, <2>4, <4>1
      <4> HIDE DEF n
      <4>3. p - i \in Nat /\ i + (p - i) <= n + 1 /\ p \in 1 .. n - 1 /\ p + 2 \in 1 .. n + 1
        BY <4>2
      <4> QED
        BY <4>1, <4>3
    <3>2. Literal(i, P(i) - i) \in Seq(Piece(text)) /\ Len(Literal(i, P(i) - i)) = One(P(i) - i # 0)
      BY <2>1, <3>1, LiteralFacts
    <3>3. PICK piece \in Piece(text) : Directive(text, P(i)) = <<piece>>
      BY <3>1, DirectiveFacts
    <3>4. ~ (P(i) > n) /\ P(i) # n
      BY <1>1, <2>1, <2>4
    <3>5. f[i] = Literal(i, P(i) - i) \o Directive(text, P(i)) \o f[P(i) + 2]
          /\ g[i] = One(i # P(i)) + 1 + g[P(i) + 2]
      <4> HIDE DEF n
      <4> QED
        BY <1>4, <3>4
    <3>6. Literal(i, P(i) - i) \o Directive(text, P(i)) \in Seq(Piece(text))
          /\ Len(Literal(i, P(i) - i) \o Directive(text, P(i))) = Len(Literal(i, P(i) - i)) + 1
      BY <3>2, <3>3
    <3>7. Len(f[i]) = Len(Literal(i, P(i) - i)) + 1 + Len(f[P(i) + 2])
      <4> DEFINE S == Piece(text)
                 s == Literal(i, P(i) - i) \o Directive(text, P(i))
                 t == f[P(i) + 2]
      <4>1. s \in Seq(S) /\ t \in Seq(S) /\ f[i] = s \o t
        BY <3>1, <3>5, <3>6
      <4>2. Len(s) = Len(Literal(i, P(i) - i)) + 1
        BY <3>6
      <4> HIDE DEF s, t, S
      <4>3. Len(f[i]) = Len(s) + Len(t)
        BY <4>1, ConcatProperties
      <4> QED
        BY <4>2, <4>3 DEF t
    <3>8. Len(f[P(i) + 2]) = g[P(i) + 2] /\ Len(f[P(i) + 2]) \in Nat
      BY <1>5, <2>4, <3>1, LenProperties
    <3>9. One(P(i) - i # 0) = One(i # P(i)) /\ One(i # P(i)) \in Nat
      BY <1>1, <2>1 DEF One
    <3> QED
      BY <3>2, <3>5, <3>7, <3>8, <3>9
  <2> QED
    BY <1>1, <2>1, <2>2, <2>3, <2>4
<1>6. \A i \in 1 .. n + 1 : Len(f[i]) = g[i]
  <2> DEFINE T == {i \in 1 .. n + 1 : Len(f[i]) # g[i]}
  <2>1. SUFFICES ASSUME T # {} PROVE FALSE
    OBVIOUS
  <2>2. PICK i \in T : \A k \in T : k <= i
    <3>1. T \in SUBSET (1 .. n + 1) /\ n + 1 \in Nat
      BY <1>1
    <3> HIDE DEF T
    <3> QED
      BY <2>1, <3>1, LastFailure
  <2>3. ASSUME P(i) < n PROVE Len(f[P(i) + 2]) = g[P(i) + 2]
    <3>1. P(i) + 2 \in 1 .. n + 1 /\ ~ P(i) + 2 <= i
      BY <1>1, <2>2, <2>3
    <3>2. P(i) + 2 \notin T
      BY <2>2, <3>1
    <3> QED
      BY <3>1, <3>2
  <2> QED
    BY <1>5, <2>2, <2>3
<1> QED
  BY <1>1, <1>2, <1>3, <1>6

\* what is compiled from the next character on begins with one character less of the
\* same literal
OneCharacterOn(f, text, i) ==
    \E size \in Nat, rest \in Seq(Piece(text)) :
        /\ i + size + 1 <= Len(text) + 1
        /\ f[i] = Literal(i, size + 1) \o rest
        /\ f[i + 1] = Literal(i + 1, size) \o rest

\* What compile_pattern does at one character: between directives a literal grows
\* by it, after a % it is one directive with the next, and at the end a % is literal.
LEMMA CompileStep ==
    ASSUME NEW text, IsText(text), NEW f \in [1 .. Len(text) + 1 -> Seq(Piece(text))],
           CompilesFrom(f, text), NEW i \in 1 .. Len(text) + 1
    PROVE  /\ i = Len(text) + 1 => f[i] = <<>>
           /\ i = Len(text) => f[i] = Literal(i, 1)
           /\ i < Len(text) /\ text[i] = "%" => f[i] = Directive(text, i) \o f[i + 2]
           /\ i < Len(text) /\ text[i] # "%" => OneCharacterOn(f, text, i)
<1> DEFINE n == Len(text)
           S == Seq(Piece(text))
           P(k) == NextPercent(text, k)
<1>0. n \in Nat /\ i \in Nat /\ i >= 1 /\ i <= n + 1 /\ i \in 1 .. n + 1
  BY TextFacts
<1>1. \A k \in 1 .. n + 1 : P(k) \in k .. n + 1
  BY <1>0, NextPercentFound
<1>2. \A k \in 1 .. n : (text[k] = "%" => P(k) = k) /\ (text[k] # "%" => P(k) = P(k + 1))
  BY NextPercentHere
<1>3. ASSUME NEW k \in 1 .. n + 1
      PROVE  f[k] = IF P(k) > n THEN Literal(k, n + 1 - k)
                    ELSE IF P(k) = n THEN Literal(k, n - k) \o Literal(n, 1)
                    ELSE Literal(k, P(k) - k) \o Directive(text, P(k)) \o f[P(k) + 2]
  BY DEF CompilesFrom
<1>4. \A offset : Literal(offset, 0) = <<>>
  BY DEF Literal
<1>5. ASSUME NEW offset \in Nat, offset >= 1, NEW size \in Nat, offset + size <= n + 1
      PROVE  Literal(offset, size) \in S
  BY <1>5, LiteralFacts
<1>6. ASSUME NEW j \in 1 .. n - 1 PROVE Directive(text, j) \in S
  <2>1. PICK piece \in Piece(text) : Directive(text, j) = <<piece>>
    BY DirectiveFacts
  <2> QED
    BY <2>1
<1>7. \A s \in S : <<>> \o s = s /\ s \o <<>> = s
  BY ConcatEmptySeq
<1> HIDE DEF P, S
<1>8. ASSUME i = n + 1 PROVE f[i] = <<>>
  <2>1. P(i) > n
    BY <1>0, <1>1, <1>8
  <2>2. f[i] = Literal(i, n + 1 - i) /\ n + 1 - i = 0
    <3>1. n + 1 - i = 0
      BY <1>0, <1>8
    <3> HIDE DEF n
    <3> QED
      BY <1>0, <1>3, <2>1, <3>1
  <2> QED
    BY <1>4, <2>2
<1>9. ASSUME i = n PROVE f[i] = Literal(i, 1)
  <2>1. CASE text[i] = "%"
    <3>1. P(i) = n /\ ~ (P(i) > n) /\ n - i = 0
      BY <1>0, <1>1, <1>2, <1>9, <2>1
    <3>2. f[i] = Literal(i, 0) \o Literal(n, 1)
      BY <1>3, <3>1
    <3>3. Literal(i, 1) \in S
      BY <1>0, <1>1, <1>5, <1>9
    <3> QED
      BY <1>4, <1>7, <1>9, <3>2, <3>3
  <2>2. CASE text[i] # "%"
    <3>1. P(i) = P(i + 1) /\ P(i + 1) > n /\ n + 1 - i = 1
      BY <1>0, <1>1, <1>2, <1>9, <2>2
    <3> QED
      BY <1>3, <3>1
  <2> QED
    BY <2>1, <2>2
<1>10. ASSUME i < n, text[i] = "%" PROVE f[i] = Directive(text, i) \o f[i + 2]
  <2>1. P(i) = i /\ ~ (P(i) > n) /\ P(i) # n /\ P(i) - i = 0
    BY <1>0, <1>1, <1>2, <1>10
  <2>2. f[i] = Literal(i, 0) \o Directive(text, i) \o f[i + 2]
    <3> HIDE DEF n
    <3> QED
      BY <1>0, <1>3, <2>1
  <2>3. Directive(text, i) \in S
    BY <1>0, <1>1, <1>6, <1>10
  <2>4. Literal(i, 0) \o Directive(text, i) = Directive(text, i)
    BY <1>4, <1>7, <2>3
  <2> QED
    BY <2>2, <2>4
<1>11. ASSUME i < n, text[i] # "%"
       PROVE  \E size \in Nat, rest \in S :
                /\ i + size + 1 <= n + 1
                /\ f[i] = Literal(i, size + 1) \o rest
                /\ f[i + 1] = Literal(i + 1, size) \o rest
  <2> DEFINE j == P(i)
  <2>1. j = P(i + 1) /\ j \in i + 1 .. n + 1
    <3>1. i \in 1 .. n /\ i + 1 \in 1 .. n + 1
      BY <1>0, <1>11
    <3>2. P(i) = P(i + 1) /\ P(i + 1) \in i + 1 .. n + 1
      BY <1>1, <1>2, <1>11, <3>1
    <3> QED
      BY <3>2
  <2>2. i \in 1 .. n + 1 /\ i + 1 \in 1 .. n + 1
    BY <1>0, <1>11
  <2> HIDE DEF j, n
  <2>3. CASE j > n
    <3>1. f[i] = Literal(i, n + 1 - i) /\ f[i + 1] = Literal(i + 1, n + 1 - (i + 1))
      BY <1>3, <2>1, <2>2, <2>3 DEF j
    <3>2. n - i \in Nat /\ (n - i) + 1 = n + 1 - i /\ n + 1 - (i + 1) = n - i
      BY <1>0, <1>11
    <3>3. Literal(i, (n - i) + 1) \in S /\ Literal(i + 1, n - i) \in S
      BY <1>0, <1>1, <1>5, <1>11, <3>2
    <3>4. <<>> \in S
      BY EmptySeq DEF S
    <3>5. f[i] = Literal(i, (n - i) + 1) \o <<>> /\ f[i + 1] = Literal(i + 1, n - i) \o <<>>
      BY <1>7, <3>1, <3>2, <3>3
    <3>6. i + (n - i) + 1 <= n + 1
      BY <1>0
    <3> QED
      BY <3>2, <3>4, <3>5, <3>6
  <2>4. CASE j = n
    <3>1. f[i] = Literal(i, n - i) \o Literal(n, 1) /\ f[i + 1] = Literal(i + 1, n - (i + 1)) \o Literal(n, 1)
      <4>1. ~ (j > n)
        BY <1>0, <2>4
      <4> QED
        BY <1>3, <2>1, <2>2, <2>4, <4>1 DEF j
    <3>2. n - (i + 1) \in Nat /\ (n - (i + 1)) + 1 = n - i /\ i + (n - (i + 1)) + 1 <= n + 1
      BY <1>0, <1>11
    <3>3. Literal(n, 1) \in S
      <4>1. n >= 1 /\ n + 1 <= n + 1
        BY <1>0, <1>11
      <4> QED
        BY <1>0, <1>1, <1>5, <4>1
    <3> QED
      BY <3>1, <3>2, <3>3
  <2>5. CASE j < n
    <3> DEFINE rest == Directive(text, j) \o f[j + 2]
    <3>1. ~ (j > n) /\ j # n
      BY <1>0, <2>1, <2>5
    <3>2. f[i] = Literal(i, j - i) \o Directive(text, j) \o f[j + 2]
          /\ f[i + 1] = Literal(i + 1, j - (i + 1)) \o Directive(text, j) \o f[j + 2]
      BY <1>3, <2>1, <2>2, <3>1 DEF j
    <3>3. j - (i + 1) \in Nat /\ (j - (i + 1)) + 1 = j - i /\ i + (j - (i + 1)) + 1 <= n + 1
      BY <1>0, <2>1
    <3>4. Directive(text, j) \in S /\ f[j + 2] \in S
      <4>1. j \in 1 .. n - 1 /\ j + 2 \in 1 .. n + 1
        BY <1>0, <2>1, <2>5
      <4> QED
        BY <1>6, <4>1 DEF n, S
    <3>5. Literal(i, j - i) \in S /\ Literal(i + 1, j - (i + 1)) \in S
      <4>1. j - i \in Nat /\ i + (j - i) <= n + 1 /\ (i + 1) + (j - (i + 1)) <= n + 1 /\ i + 1 \in Nat /\ i + 1 >= 1
        BY <1>0, <2>1
      <4> QED
        BY <1>0, <1>1, <1>5, <3>3, <4>1
    <3>6. rest \in S
      BY <3>4, ConcatProperties DEF S
    <3>7. f[i] = Literal(i, j - i) \o rest /\ f[i + 1] = Literal(i + 1, j - (i + 1)) \o rest
      <4>1. ASSUME NEW s \in S
            PROVE  s \o Directive(text, j) \o f[j + 2] = s \o (Directive(text, j) \o f[j + 2])
        <5> DEFINE p == Directive(text, j)
                   q == f[j + 2]
        <5>1. s \in Seq(Piece(text)) /\ p \in Seq(Piece(text)) /\ q \in Seq(Piece(text))
          BY <3>4 DEF S
        <5> HIDE DEF p, q
        <5>2. (s \o p) \o q = s \o (p \o q)
          BY <5>1, ConcatAssociative, SMTT(30)
        <5> QED
          BY <5>2 DEF p, q
      <4> QED
        BY <3>2, <3>5, <4>1
    <3> HIDE DEF rest
    <3> QED
      BY <3>3, <3>6, <3>7
  <2>6. j > n \/ j = n \/ j < n
    BY <1>0, <2>1
  <2> QED
    BY <2>3, <2>4, <2>5, <2>6
<1>12. i < n /\ text[i] # "%" => OneCharacterOn(f, text, i)
  <2>1. SUFFICES ASSUME i < n, text[i] # "%" PROVE OneCharacterOn(f, text, i)
    OBVIOUS
  <2>2. PICK size \in Nat, rest \in S :
            /\ i + size + 1 <= n + 1
            /\ f[i] = Literal(i, size + 1) \o rest
            /\ f[i + 1] = Literal(i + 1, size) \o rest
    BY <1>11, <2>1
  <2> QED
    BY <2>2 DEF OneCharacterOn, S
<1> QED
  BY <1>8, <1>9, <1>10, <1>12 DEF S

LEMMA TokensOfConcat ==
    ASSUME NEW S, NEW s \in Seq(S), NEW t \in Seq(S)
    PROVE  Tokens(s \o t) = Tokens(s) \cup Tokens(t)
<1> DEFINE m == Len(s)
           n == Len(t)
           u == s \o t
<1>1. m \in Nat /\ n \in Nat
  BY LenProperties
<1>2. Len(u) = m + n /\ \A k \in 1 .. m + n : u[k] = IF k <= m THEN s[k] ELSE t[k - m]
  BY ConcatProperties
<1> HIDE DEF u
<1>3. ASSUME NEW c \in Tokens(u) PROVE c \in Tokens(s) \cup Tokens(t)
  <2>1. PICK k \in 1 .. Len(u) : c = u[k].token
    BY DEF Tokens
  <2>2. CASE k <= m
    <3>1. k \in 1 .. m /\ c = s[k].token
      BY <1>1, <1>2, <2>1, <2>2
    <3> QED
      BY <3>1 DEF Tokens
  <2>3. CASE ~ (k <= m)
    <3>1. k - m \in 1 .. n /\ c = t[k - m].token
      BY <1>1, <1>2, <2>1, <2>3
    <3> QED
      BY <3>1 DEF Tokens
  <2> QED
    BY <2>2, <2>3
<1>4. ASSUME NEW c \in Tokens(s) PROVE c \in Tokens(u)
  <2>1. PICK k \in 1 .. m : c = s[k].token
    BY DEF Tokens
  <2>2. k \in 1 .. Len(u) /\ u[k] = s[k]
    BY <1>1, <1>2
  <2> QED
    BY <2>1, <2>2 DEF Tokens
<1>5. ASSUME NEW c \in Tokens(t) PROVE c \in Tokens(u)
  <2>1. PICK k \in 1 .. n : c = t[k].token
    BY DEF Tokens
  <2>2. m + k \in 1 .. Len(u) /\ u[m + k] = t[k]
    BY <1>1, <1>2
  <2> QED
    BY <2>1, <2>2 DEF Tokens
<1> QED
  BY <1>3, <1>4, <1>5 DEF u

LEMMA LiteralHasNoToken ==
    ASSUME NEW text, IsText(text), NEW offset \in Nat, offset >= 1, NEW size \in Nat,
           offset + size <= Len(text) + 1
    PROVE  Tokens(Literal(offset, size)) \cap Known = {}
<1>1. \A k \in 1 .. Len(Literal(offset, size)) : Literal(offset, size)[k].token = "literal"
  BY LiteralFacts
<1>2. "literal" \notin Known
  BY DEF Known
<1> QED
  BY <1>1, <1>2 DEF Tokens

\* The directives that are rendered are those that the scans for what a record must
\* capture find (compile_pattern, analyze_time_requirements, pattern_uses_token).
THEOREM ScansFindTokens ==
    ASSUME NEW text, IsText(text)
    PROVE  Tokens(Compile(text)) \cap Known = Escapes(text) \cap Known
<1> DEFINE n == Len(text)
<1>0. n \in Nat
  BY TextFacts
<1>1. PICK f \in [1 .. n + 1 -> Seq(Piece(text))] : CompilesFrom(f, text) /\ Compile(text) = f[1]
  BY CompileFunction
<1>2. PICK g : EscapesFrom(g, text) /\ Escapes(text) = g[1]
  BY EscapesFunction
<1> DEFINE Agree(i) == Tokens(f[i]) \cap Known = g[i] \cap Known
<1>3. ASSUME NEW i \in 1 .. n + 1
      PROVE  g[i] = IF i >= n THEN {} ELSE IF text[i] # "%" THEN g[i + 1] ELSE {text[i + 1]} \cup g[i + 2]
  BY <1>2 DEF EscapesFrom
<1>4. ASSUME NEW i \in 1 .. n + 1, \A k \in i + 1 .. n + 1 : Agree(k)
      PROVE  Agree(i)
  <2>0. i \in Nat /\ i >= 1
    BY <1>0
  <2>1. CASE i = n + 1
    <3>1. f[i] = <<>> /\ g[i] = {}
      <4>1. f[i] = <<>>
        BY <1>1, <2>1, CompileStep
      <4>2. i >= n
        BY <1>0, <2>1
      <4>3. g[i] = {}
        <5> HIDE DEF n
        <5> QED
          BY <1>3, <4>2
      <4> QED
        BY <4>1, <4>3
    <3> QED
      BY <3>1 DEF Tokens
  <2>2. CASE i = n
    <3>1. f[i] = Literal(i, 1) /\ g[i] = {}
      <4>1. f[i] = Literal(i, 1)
        BY <1>1, <2>2, CompileStep
      <4>2. i >= n
        BY <1>0, <2>2
      <4>3. g[i] = {}
        <5> HIDE DEF n
        <5> QED
          BY <1>3, <4>2
      <4> QED
        BY <4>1, <4>3
    <3>2. Tokens(Literal(i, 1)) \cap Known = {}
      BY <1>0, <2>0, <2>2, LiteralHasNoToken
    <3> QED
      BY <3>1, <3>2
  <2>3. CASE i < n /\ text[i] = "%"
    <3>1. f[i] = Directive(text, i) \o f[i + 2]
      BY <1>1, <2>3, CompileStep
    <3>2. i \in 1 .. n - 1 /\ i + 2 \in i + 1 .. n + 1 /\ i + 2 \in 1 .. n + 1
      BY <1>0, <2>0, <2>3
    <3>3. PICK piece \in Piece(text) :
              /\ Directive(text, i) = <<piece>>
              /\ IF text[i + 1] \in Known
                 THEN piece = [token |-> text[i + 1], offset |-> 0, size |-> 0]
                 ELSE piece = [token |-> "literal", offset |-> i, size |-> 2]
      BY <3>2, DirectiveFacts
    <3>4. piece.token = IF text[i + 1] \in Known THEN text[i + 1] ELSE "literal"
      BY <3>3
    <3>5. Tokens(Directive(text, i)) = {piece.token}
      BY <3>3 DEF Tokens
    <3>6. "literal" \notin Known
      BY DEF Known
    <3>7. Tokens(Directive(text, i)) \cap Known = {text[i + 1]} \cap Known
      BY <3>4, <3>5, <3>6
    <3>8. Tokens(f[i]) = Tokens(Directive(text, i)) \cup Tokens(f[i + 2])
      <4>1. Directive(text, i) \in Seq(Piece(text)) /\ f[i + 2] \in Seq(Piece(text))
        BY <3>2, <3>3
      <4> QED
        BY <3>1, <4>1, TokensOfConcat
    <3>9. g[i] = {text[i + 1]} \cup g[i + 2]
      <4>1. ~ (i >= n)
        BY <1>0, <2>0, <2>3
      <4> HIDE DEF n
      <4> QED
        BY <1>3, <2>3, <4>1
    <3>10. Tokens(f[i + 2]) \cap Known = g[i + 2] \cap Known
      BY <1>4, <3>2
    <3> QED
      BY <3>7, <3>8, <3>9, <3>10
  <2>4. CASE i < n /\ text[i] # "%"
    <3>1. PICK size \in Nat, rest \in Seq(Piece(text)) :
              /\ i + size + 1 <= Len(text) + 1
              /\ f[i] = Literal(i, size + 1) \o rest
              /\ f[i + 1] = Literal(i + 1, size) \o rest
      <4>1. i < Len(text) /\ text[i] # "%" /\ IsText(text) /\ i \in 1 .. Len(text) + 1
        BY <2>4
      <4>2. OneCharacterOn(f, text, i)
        BY <1>1, <4>1, CompileStep
      <4> QED
        BY <4>2 DEF OneCharacterOn
    <3>2. /\ i + (size + 1) <= n + 1 /\ (i + 1) + size <= n + 1
          /\ size + 1 \in Nat /\ i + 1 \in Nat /\ i + 1 >= 1
      BY <1>0, <2>0, <3>1
    <3>3. /\ Literal(i, size + 1) \in Seq(Piece(text)) /\ Literal(i + 1, size) \in Seq(Piece(text))
          /\ Tokens(Literal(i, size + 1)) \cap Known = {} /\ Tokens(Literal(i + 1, size)) \cap Known = {}
      BY <2>0, <3>2, LiteralFacts, LiteralHasNoToken
    <3>4. /\ Tokens(f[i]) = Tokens(Literal(i, size + 1)) \cup Tokens(rest)
          /\ Tokens(f[i + 1]) = Tokens(Literal(i + 1, size)) \cup Tokens(rest)
      BY <3>1, <3>3, TokensOfConcat
    <3>5. g[i] = g[i + 1]
      <4>1. ~ (i >= n)
        BY <1>0, <2>0, <2>4
      <4> HIDE DEF n
      <4> QED
        BY <1>3, <2>4, <4>1
    <3>6. i + 1 \in i + 1 .. n + 1
      BY <1>0, <2>0, <2>4
    <3>7. Tokens(f[i + 1]) \cap Known = g[i + 1] \cap Known
      BY <1>4, <3>6
    <3> QED
      BY <3>3, <3>4, <3>5, <3>7
  <2>5. i = n + 1 \/ i = n \/ i < n
    BY <1>0, <2>0
  <2> QED
    BY <2>1, <2>2, <2>3, <2>4, <2>5
<1>5. \A i \in 1 .. n + 1 : Agree(i)
  <2> DEFINE T == {i \in 1 .. n + 1 : ~Agree(i)}
  <2> HIDE DEF Agree
  <2>1. SUFFICES ASSUME T # {} PROVE FALSE
    OBVIOUS
  <2>2. PICK i \in T : \A k \in T : k <= i
    <3>1. T \in SUBSET (1 .. n + 1) /\ n + 1 \in Nat
      BY <1>0
    <3> HIDE DEF T
    <3> QED
      BY <2>1, <3>1, LastFailure
  <2>3. \A k \in i + 1 .. n + 1 : Agree(k)
    BY <1>0, <2>2
  <2> QED
    BY <1>4, <2>2, <2>3
<1>6. Agree(1)
  <2>1. 1 \in 1 .. n + 1
    BY <1>0
  <2> HIDE DEF Agree
  <2> QED
    BY <1>5, <2>1
<1> QED
  BY <1>1, <1>2, <1>6

-----------------------------------------------------------------------------
(* What is rendered *)

Glyph(text) == {"text", "field"} \X ({text[k] : k \in 1 .. Len(text)} \cup Known)

\* the characters of the text from offset on
Characters(text, offset, size) == [k \in 1 .. size |-> <<"text", text[offset + k - 1]>>]

LEMMA CharactersFacts ==
    ASSUME NEW text, IsText(text), NEW offset \in Nat, offset >= 1, NEW size \in Nat,
           offset + size <= Len(text) + 1
    PROVE  /\ Characters(text, offset, size) \in Seq(Glyph(text))
           /\ Len(Characters(text, offset, size)) = size
           /\ \A k \in 1 .. size : Characters(text, offset, size)[k] = <<"text", text[offset + k - 1]>>
<1> DEFINE s == Characters(text, offset, size)
<1>1. ASSUME NEW k \in 1 .. size PROVE <<"text", text[offset + k - 1]>> \in Glyph(text)
  <2>1. offset + k - 1 \in 1 .. Len(text)
    BY TextFacts
  <2>2. text[offset + k - 1] \in {text[l] : l \in 1 .. Len(text)}
    BY <2>1
  <2> QED
    BY <2>2 DEF Glyph
<1>2. s \in [1 .. size -> Glyph(text)]
  BY <1>1 DEF Characters
<1>3. \A k \in 1 .. size : s[k] = <<"text", text[offset + k - 1]>>
  BY DEF Characters
<1> HIDE DEF s
<1>4. s \in Seq(Glyph(text))
  BY <1>2, SeqDef
<1>5. Len(s) = size
  BY <1>2
<1> QED
  BY <1>3, <1>4, <1>5 DEF s

LEMMA RenderPieceFacts ==
    ASSUME NEW text, IsText(text), NEW piece \in Piece(text), NEW color \in BOOLEAN
    PROVE  /\ RenderPiece(text, piece, color) \in Seq(Glyph(text))
           /\ piece.token = "literal" =>
                 RenderPiece(text, piece, color) = Characters(text, piece.offset, piece.size)
           /\ piece.token # "literal" => RenderPiece(text, piece, color) = Shown(piece.token, color)
<1>1. /\ piece.token \in Known \cup {"literal"} /\ piece.offset \in Nat /\ piece.size \in Nat
      /\ piece.token = "literal" => piece.offset >= 1 /\ piece.offset + piece.size <= Len(text) + 1
  BY DEF Piece
<1>2. CASE piece.token = "literal"
  <2>1. RenderPiece(text, piece, color) = Characters(text, piece.offset, piece.size)
    BY <1>2 DEF RenderPiece, Characters
  <2> QED
    BY <1>1, <1>2, <2>1, CharactersFacts
<1>3. CASE piece.token # "literal"
  <2>1. piece.token \in Known
    BY <1>1, <1>3
  <2>2. RenderPiece(text, piece, color) = Shown(piece.token, color)
    BY <1>3, <2>1 DEF RenderPiece, Shown
  <2>3. /\ <<"text", "%">> \in Glyph(text)
        /\ <<"field", piece.token>> \in Glyph(text)
    BY <2>1 DEF Glyph, Known
  <2>4. Shown(piece.token, color) \in {<<<<"text", "%">>>>, <<<<"field", piece.token>>>>, <<>>}
    BY <2>1 DEF Shown
  <2>5. Shown(piece.token, color) \in Seq(Glyph(text))
    <3> DEFINE a == <<"text", "%">>
               b == <<"field", piece.token>>
    <3>1. a \in Glyph(text) /\ b \in Glyph(text) /\ Shown(piece.token, color) \in {<<a>>, <<b>>, <<>>}
      BY <2>3, <2>4
    <3> HIDE DEF a, b
    <3>2. <<a>> \in Seq(Glyph(text)) /\ <<b>> \in Seq(Glyph(text)) /\ <<>> \in Seq(Glyph(text))
      BY <3>1
    <3> QED
      BY <3>1, <3>2
  <2> QED
    BY <1>3, <2>2, <2>5
<1> QED
  BY <1>2, <1>3

RendersTo(f, text, pieces, color) ==
    f = [k \in 0 .. Len(pieces) |->
            IF k = 0 THEN <<>> ELSE f[k - 1] \o RenderPiece(text, pieces[k], color)]

LEMMA RenderFunction ==
    ASSUME NEW text, IsText(text), NEW pieces \in Seq(Piece(text)), NEW color \in BOOLEAN
    PROVE  \E f \in [0 .. Len(pieces) -> Seq(Glyph(text))] :
              RendersTo(f, text, pieces, color) /\ Render(text, pieces, color) = f[Len(pieces)]
<1> DEFINE n == Len(pieces)
           V == Seq(Glyph(text))
           R(k) == RenderPiece(text, pieces[k], color)
           Stops == {n + 1}
           base == [i \in 1 .. n + 1 |-> <<>>]
           next == [i \in 1 .. n + 1 |-> i + 1]
           step == [i \in 1 .. n + 1 |-> [v \in V |-> IF i <= n THEN v \o R(n + 1 - i) ELSE v]]
<1>1. n \in Nat /\ \A k \in 1 .. n : pieces[k] \in Piece(text)
  BY LenProperties, ElementOfSeq
<1>2. ASSUME NEW k \in 1 .. n PROVE R(k) \in V
  BY <1>1, RenderPieceFacts
<1>3. <<>> \in V
  BY EmptySeq
<1> HIDE DEF R
<1>4. Recursion(n, V, Stops, base, next, step)
  <2>1. base \in [1 .. n + 1 -> V]
    BY <1>3
  <2>2. next \in [1 .. n + 1 -> Int] /\ \A i \in 1 .. n + 1 : i \in Stops \/ (i < next[i] /\ next[i] <= n + 1)
    BY <1>1
  <2>3. step \in [1 .. n + 1 -> [V -> V]]
    <3>1. ASSUME NEW i \in 1 .. n + 1, NEW v \in V
          PROVE  (IF i <= n THEN v \o R(n + 1 - i) ELSE v) \in V
      <4>1. CASE i <= n
        <5>1. R(n + 1 - i) \in V
          BY <1>1, <1>2, <4>1
        <5>2. v \o R(n + 1 - i) \in V
          BY <5>1, ConcatProperties
        <5> QED
          BY <4>1, <5>2
      <4>2. CASE ~ (i <= n)
        BY <4>2
      <4> QED
        BY <4>1, <4>2
    <3> HIDE DEF V
    <3> QED
      BY <3>1
  <2> HIDE DEF n, V, Stops, base, next, step
  <2> QED
    BY <1>1, <2>1, <2>2, <2>3 DEF Recursion
<1>5. PICK f : Solution(f, n, V, Stops, base, next, step)
  <2> HIDE DEF n, V, Stops, base, next, step
  <2> QED
    BY <1>4, Descends
<1>6. f \in [1 .. n + 1 -> V]
  BY <1>5 DEF Solution
<1> DEFINE h == [k \in 0 .. n |-> f[n + 1 - k]]
<1>7. ASSUME NEW k \in 0 .. n
      PROVE  h[k] = IF k = 0 THEN <<>> ELSE h[k - 1] \o R(k)
  <2>1. n + 1 - k \in 1 .. n + 1
    BY <1>1
  <2>2. CASE k = 0
    <3>1. h[k] = f[n + 1] /\ n + 1 \in 1 .. n + 1
      BY <1>1, <2>2
    <3>2. f[n + 1] = base[n + 1]
      <4> HIDE DEF base, next, step, V
      <4> QED
        BY <1>5, <3>1 DEF Solution
    <3>3. base[n + 1] = <<>>
      BY <3>1
    <3> QED
      BY <2>2, <3>1, <3>2, <3>3
  <2>3. CASE k # 0
    <3> DEFINE i == n + 1 - k
    <3>1. i \in 1 .. n /\ i \in 1 .. n + 1 /\ i \notin Stops /\ i + 1 \in 1 .. n + 1 /\ n + 1 - i = k
          /\ n + 1 - (k - 1) = i + 1 /\ k - 1 \in 0 .. n
      BY <1>1, <2>3
    <3> HIDE DEF i
    <3>2. next[i] = i + 1
      BY <3>1
    <3>3. f[i + 1] \in V /\ f[i] = step[i][f[i + 1]]
      <4> HIDE DEF V, Stops, next, step
      <4> QED
        BY <1>5, <1>6, <3>1, <3>2 DEF Solution
    <3>4. \A v \in V : step[i][v] = v \o R(k)
      <4>1. step[i] = [v \in V |-> v \o R(n + 1 - i)]
        BY <3>1
      <4> HIDE DEF V, R, step, Stops, n
      <4> QED
        BY <3>1, <4>1
    <3>5. h[k] = f[i] /\ h[k - 1] = f[i + 1]
      BY <3>1 DEF i
    <3> HIDE DEF V, step, h
    <3> QED
      BY <2>3, <3>3, <3>4, <3>5
  <2> QED
    BY <2>2, <2>3
<1>8. RendersTo(h, text, pieces, color)
  <2> HIDE DEF V
  <2>1. h = [k \in 0 .. n |-> h[k]]
    OBVIOUS
  <2> HIDE DEF h
  <2> QED
    BY <1>7, <2>1 DEF RendersTo, R
<1> DEFINE g == CHOOSE e : RendersTo(e, text, pieces, color)
<1>9. RendersTo(g, text, pieces, color)
  <2> HIDE DEF h
  <2> QED
    BY <1>8
<1>10. Render(text, pieces, color) = g[n]
  BY DEF Render, RendersTo
<1> HIDE DEF g
<1>11. ASSUME NEW k \in 0 .. n
       PROVE  g[k] = IF k = 0 THEN <<>> ELSE g[k - 1] \o R(k)
  BY <1>9 DEF RendersTo, R
<1>12. \A k \in 0 .. n : g[k] \in V
  <2> DEFINE T == {k \in 0 .. n : g[k] \notin V}
  <2> HIDE DEF V
  <2>1. SUFFICES ASSUME T # {} PROVE FALSE
    OBVIOUS
  <2>2. PICK k \in T : \A l \in T : k <= l
    <3>1. T \in SUBSET Nat
      BY <1>1
    <3> HIDE DEF T
    <3> QED
      BY <2>1, <3>1, LeastNumber
  <2>3. k # 0
    BY <1>3, <1>11, <2>2
  <2>4. k - 1 \in 0 .. n /\ k \in 1 .. n /\ g[k - 1] \in V
    BY <1>1, <2>2, <2>3
  <2>5. g[k] = g[k - 1] \o R(k)
    BY <1>11, <2>2, <2>3
  <2>6. g[k] \in V
    BY <1>2, <2>4, <2>5, ConcatProperties DEF V
  <2> QED
    BY <2>2, <2>6
<1>13. g \in [0 .. n -> V]
  <2>1. g = [k \in 0 .. n |-> g[k]]
    BY <1>9 DEF RendersTo
  <2> HIDE DEF V
  <2> QED
    BY <1>12, <2>1
<1> QED
  BY <1>9, <1>10, <1>13

\* The first piece is rendered in front of what the others are rendered to.
LEMMA RenderPrepended ==
    ASSUME NEW text, IsText(text), NEW piece \in Piece(text), NEW pieces \in Seq(Piece(text)),
           NEW color \in BOOLEAN
    PROVE  /\ Render(text, pieces, color) \in Seq(Glyph(text))
           /\ Render(text, <<piece>> \o pieces, color)
                 = RenderPiece(text, piece, color) \o Render(text, pieces, color)
<1> DEFINE n == Len(pieces)
           V == Seq(Glyph(text))
           more == <<piece>> \o pieces
           first == RenderPiece(text, piece, color)
           R(k) == RenderPiece(text, pieces[k], color)
<1>1. n \in Nat /\ \A k \in 1 .. n : pieces[k] \in Piece(text)
  BY LenProperties, ElementOfSeq
<1>2. /\ more \in Seq(Piece(text)) /\ Len(more) = n + 1
      /\ more[1] = piece /\ \A k \in 1 .. n : more[k + 1] = pieces[k]
  <2>1. <<piece>> \in Seq(Piece(text)) /\ Len(<<piece>>) = 1 /\ <<piece>>[1] = piece
    OBVIOUS
  <2> DEFINE s == <<piece>>
  <2>2. s \in Seq(Piece(text)) /\ Len(s) = 1 /\ s[1] = piece
    BY <2>1
  <2> HIDE DEF s
  <2> DEFINE u == s \o pieces
  <2>3. /\ u \in Seq(Piece(text)) /\ Len(u) = Len(s) + Len(pieces)
        /\ \A k \in 1 .. Len(s) + Len(pieces) : u[k] = IF k <= Len(s) THEN s[k] ELSE pieces[k - Len(s)]
    BY <2>2, ConcatProperties
  <2> HIDE DEF u
  <2>4. /\ u \in Seq(Piece(text)) /\ Len(u) = n + 1
        /\ u[1] = piece /\ \A k \in 1 .. n : u[k + 1] = pieces[k]
    BY <1>1, <2>2, <2>3
  <2> QED
    BY <2>4 DEF u, s
<1>3. PICK f \in [0 .. n -> V] : RendersTo(f, text, pieces, color) /\ Render(text, pieces, color) = f[n]
  BY RenderFunction
<1> HIDE DEF more
<1>4. PICK g \in [0 .. Len(more) -> V] : RendersTo(g, text, more, color) /\ Render(text, more, color) = g[Len(more)]
  BY <1>2, RenderFunction
<1>5. ASSUME NEW k \in 0 .. n PROVE f[k] = IF k = 0 THEN <<>> ELSE f[k - 1] \o R(k)
  BY <1>3 DEF RendersTo
<1>6. ASSUME NEW k \in 0 .. n + 1
      PROVE  g[k] = IF k = 0 THEN <<>> ELSE g[k - 1] \o RenderPiece(text, more[k], color)
  BY <1>2, <1>4 DEF RendersTo
<1>7. first \in V /\ \A k \in 1 .. n : R(k) \in V
  BY <1>1, RenderPieceFacts
<1> HIDE DEF first, R
<1>8. ASSUME NEW k \in 0 .. n, k # 0 => g[k] = first \o f[k - 1]
      PROVE  g[k + 1] = first \o f[k]
  <2>0. k + 1 \in 0 .. n + 1 /\ k + 1 # 0 /\ k + 1 - 1 = k
    BY <1>1
  <2>1. g[k + 1] = g[k] \o RenderPiece(text, more[k + 1], color)
    <3> DEFINE m == k + 1
    <3>1. m \in 0 .. n + 1 /\ m # 0 /\ m - 1 = k
      BY <2>0
    <3> HIDE DEF m
    <3>2. g[m] = g[m - 1] \o RenderPiece(text, more[m], color)
      BY <1>6, <3>1
    <3>3. g[m] = g[k] \o RenderPiece(text, more[m], color)
      BY <3>1, <3>2
    <3> QED
      BY <3>3 DEF m
  <2>2. CASE k = 0
    <3>1. g[k] = <<>> /\ f[k] = <<>> /\ more[k + 1] = piece
      <4>1. k \in 0 .. n + 1 /\ k + 1 = 1
        BY <1>1, <2>2
      <4> QED
        BY <1>2, <1>5, <1>6, <2>2, <4>1
    <3>2. g[k + 1] = <<>> \o first
      BY <2>1, <3>1 DEF first
    <3> QED
      BY <1>7, <3>1, <3>2, ConcatEmptySeq
  <2>3. CASE k # 0
    <3>1. k \in 1 .. n /\ k - 1 \in 0 .. n
      BY <1>1, <2>3
    <3>2. g[k + 1] = (first \o f[k - 1]) \o R(k)
      BY <1>2, <1>8, <2>1, <2>3, <3>1 DEF R
    <3>3. f[k] = f[k - 1] \o R(k)
      BY <1>5, <2>3
    <3>4. f[k - 1] \in V /\ R(k) \in V
      BY <1>3, <1>7, <3>1
    <3> DEFINE p == f[k - 1]
               q == R(k)
               r == first
    <3>5. p \in V /\ q \in V /\ r \in V
      BY <1>7, <3>4
    <3> HIDE DEF p, q, r
    <3>6. (r \o p) \o q = r \o (p \o q)
      BY <3>5, ConcatAssociative, SMTT(30)
    <3> QED
      BY <3>2, <3>3, <3>6 DEF p, q, r
  <2> QED
    BY <2>2, <2>3
<1>9. \A k \in 0 .. n : g[k + 1] = first \o f[k]
  <2> DEFINE T == {k \in 0 .. n : g[k + 1] # first \o f[k]}
  <2>1. SUFFICES ASSUME T # {} PROVE FALSE
    OBVIOUS
  <2>2. PICK k \in T : \A l \in T : k <= l
    <3>1. T \in SUBSET Nat
      BY <1>1
    <3> HIDE DEF T
    <3> QED
      BY <2>1, <3>1, LeastNumber
  <2>3. k # 0 => g[k] = first \o f[k - 1]
    <3>1. SUFFICES ASSUME k # 0 PROVE g[k] = first \o f[k - 1]
      OBVIOUS
    <3>2. k - 1 \in 0 .. n /\ ~ (k <= k - 1) /\ (k - 1) + 1 = k
      BY <1>1, <2>2, <3>1
    <3>3. g[(k - 1) + 1] = first \o f[k - 1]
      BY <2>2, <3>2
    <3> QED
      BY <3>2, <3>3
  <2> QED
    BY <1>8, <2>2, <2>3
<1>10. n \in 0 .. n /\ Len(more) = n + 1
  BY <1>1, <1>2
<1>11. g[n + 1] = first \o f[n]
  BY <1>9, <1>10
<1>12. f[n] \in V
  BY <1>3, <1>10
<1> QED
  BY <1>3, <1>4, <1>10, <1>11, <1>12 DEF first, more

LEMMA RenderNothing ==
    ASSUME NEW text, IsText(text), NEW color \in BOOLEAN
    PROVE  Render(text, <<>>, color) = <<>>
<1>1. <<>> \in Seq(Piece(text)) /\ Len(<<>>) = 0
  BY EmptySeq
<1>2. PICK f : RendersTo(f, text, <<>>, color) /\ Render(text, <<>>, color) = f[Len(<<>>)]
  BY <1>1, RenderFunction
<1>3. f[0] = <<>>
  BY <1>1, <1>2 DEF RendersTo
<1> QED
  BY <1>1, <1>2, <1>3

LEMMA RenderLiteral ==
    ASSUME NEW text, IsText(text), NEW offset \in Nat, offset >= 1, NEW size \in Nat,
           offset + size <= Len(text) + 1, NEW pieces \in Seq(Piece(text)), NEW color \in BOOLEAN
    PROVE  Render(text, Literal(offset, size) \o pieces, color)
              = Characters(text, offset, size) \o Render(text, pieces, color)
<1>1. Render(text, pieces, color) \in Seq(Glyph(text))
  <2>1. PICK f \in [0 .. Len(pieces) -> Seq(Glyph(text))] :
            RendersTo(f, text, pieces, color) /\ Render(text, pieces, color) = f[Len(pieces)]
    BY RenderFunction
  <2>2. Len(pieces) \in 0 .. Len(pieces)
    BY LenProperties
  <2> QED
    BY <2>1, <2>2
<1>2. CASE size = 0
  <2>1. Literal(offset, size) = <<>> /\ Characters(text, offset, size) = <<>>
    BY <1>2 DEF Literal, Characters
  <2>2. <<>> \o pieces = pieces /\ <<>> \o Render(text, pieces, color) = Render(text, pieces, color)
    BY <1>1, ConcatEmptySeq
  <2> QED
    BY <2>1, <2>2
<1>3. CASE size # 0
  <2> DEFINE piece == [token |-> "literal", offset |-> offset, size |-> size]
  <2>1. Literal(offset, size) = <<piece>> /\ piece.token = "literal" /\ piece.offset = offset /\ piece.size = size
    BY <1>3 DEF Literal
  <2>2. piece \in Piece(text)
    <3>1. piece \in [token : Known \cup {"literal"}, offset : Nat, size : Nat]
      OBVIOUS
    <3> HIDE DEF piece
    <3> QED
      BY <2>1, <3>1 DEF Piece
  <2> HIDE DEF piece
  <2>3. Render(text, <<piece>> \o pieces, color)
           = RenderPiece(text, piece, color) \o Render(text, pieces, color)
    BY <2>2, RenderPrepended
  <2>4. RenderPiece(text, piece, color) = Characters(text, offset, size)
    BY <2>1, <2>2, RenderPieceFacts
  <2> QED
    BY <2>1, <2>3, <2>4
<1> QED
  BY <1>2, <1>3

MeansFrom(f, text, color) ==
    f = [i \in 1 .. Len(text) + 1 |->
            IF i > Len(text) THEN <<>>
            ELSE IF text[i] = "%" /\ i < Len(text) THEN Shown(text[i + 1], color) \o f[i + 2]
            ELSE <<<<"text", text[i]>>>> \o f[i + 1]]

LEMMA ShownFacts ==
    ASSUME NEW text, IsText(text), NEW i \in 1 .. Len(text), NEW color \in BOOLEAN
    PROVE  /\ <<<<"text", text[i]>>>> \in Seq(Glyph(text))
           /\ Shown(text[i], color) \in Seq(Glyph(text))
<1> DEFINE c == text[i]
           a == <<"text", "%">>
           b == <<"field", c>>
           d == <<"text", c>>
<1>1. c \in {text[k] : k \in 1 .. Len(text)} /\ "%" \in Known
  BY DEF Known
<1> HIDE DEF c
<1>2. a \in Glyph(text) /\ b \in Glyph(text) /\ d \in Glyph(text)
  BY <1>1 DEF Glyph
<1>3. Shown(c, color) \in {<<a>>, <<b>>, <<>>, <<a, d>>}
  BY DEF Shown
<1> HIDE DEF a, b, d
<1>4. /\ <<a>> \in Seq(Glyph(text)) /\ <<b>> \in Seq(Glyph(text)) /\ <<d>> \in Seq(Glyph(text))
      /\ <<>> \in Seq(Glyph(text)) /\ <<a, d>> \in Seq(Glyph(text))
  BY <1>2
<1>5. Shown(c, color) \in Seq(Glyph(text))
  BY <1>3, <1>4
<1> QED
  BY <1>4, <1>5 DEF c, d

LEMMA MeaningFunction ==
    ASSUME NEW text, IsText(text), NEW color \in BOOLEAN
    PROVE  \E f : MeansFrom(f, text, color) /\ Meaning(text, color) = f[1]
<1> DEFINE n == Len(text)
           V == Seq(Glyph(text))
           Pair(i) == text[i] = "%" /\ i < n
           Front(i) == IF Pair(i) THEN Shown(text[i + 1], color) ELSE <<<<"text", text[i]>>>>
           Stops == {n + 1}
           base == [i \in 1 .. n + 1 |-> <<>>]
           next == [i \in 1 .. n + 1 |-> IF Pair(i) THEN i + 2 ELSE i + 1]
           step == [i \in 1 .. n + 1 |-> [v \in V |-> IF i <= n THEN Front(i) \o v ELSE v]]
<1>1. n \in Nat
  BY TextFacts
<1>2. ASSUME NEW i \in 1 .. n PROVE Front(i) \in V
  <2>1. CASE Pair(i)
    <3>1. i + 1 \in 1 .. n
      BY <1>1, <2>1
    <3>2. Shown(text[i + 1], color) \in V
      BY <3>1, ShownFacts
    <3> QED
      BY <2>1, <3>2
  <2>2. CASE ~Pair(i)
    <3>1. <<<<"text", text[i]>>>> \in V
      BY ShownFacts
    <3> QED
      BY <2>2, <3>1
  <2> QED
    BY <2>1, <2>2
<1>3. <<>> \in V
  BY EmptySeq
<1>4. ASSUME NEW i \in 1 .. n + 1
      PROVE  (Pair(i) => i < n) /\ next[i] = IF Pair(i) THEN i + 2 ELSE i + 1
  OBVIOUS
<1> HIDE DEF Pair, Front
<1>5. Recursion(n, V, Stops, base, next, step)
  <2>1. base \in [1 .. n + 1 -> V]
    BY <1>3
  <2>2. next \in [1 .. n + 1 -> Int] /\ \A i \in 1 .. n + 1 : i \in Stops \/ (i < next[i] /\ next[i] <= n + 1)
    BY <1>1, <1>4
  <2>3. step \in [1 .. n + 1 -> [V -> V]]
    <3>1. ASSUME NEW i \in 1 .. n + 1, NEW v \in V
          PROVE  (IF i <= n THEN Front(i) \o v ELSE v) \in V
      <4>1. CASE i <= n
        <5>1. Front(i) \in V
          BY <1>1, <1>2, <4>1
        <5>2. Front(i) \o v \in V
          BY <5>1, ConcatProperties
        <5> QED
          BY <4>1, <5>2
      <4>2. CASE ~ (i <= n)
        BY <4>2
      <4> QED
        BY <4>1, <4>2
    <3> HIDE DEF V
    <3> QED
      BY <3>1
  <2> HIDE DEF n, V, Stops, base, next, step
  <2> QED
    BY <1>1, <2>1, <2>2, <2>3 DEF Recursion
<1>6. PICK f : Solution(f, n, V, Stops, base, next, step)
  <2> HIDE DEF n, V, Stops, base, next, step
  <2> QED
    BY <1>5, Descends
<1>7. f \in [1 .. n + 1 -> V]
  BY <1>6 DEF Solution
<1>8. ASSUME NEW i \in 1 .. n + 1
      PROVE  f[i] = IF i > n THEN <<>>
                    ELSE IF Pair(i) THEN Shown(text[i + 1], color) \o f[i + 2]
                    ELSE <<<<"text", text[i]>>>> \o f[i + 1]
  <2>1. CASE i = n + 1
    <3>1. f[i] = base[i]
      <4> HIDE DEF base, next, step, V
      <4> QED
        BY <1>6, <2>1 DEF Solution
    <3>2. i > n /\ base[i] = <<>>
      BY <1>1, <2>1
    <3> QED
      BY <3>1, <3>2
  <2>2. CASE i # n + 1
    <3>1. i \notin Stops /\ i <= n /\ ~ (i > n) /\ next[i] \in 1 .. n + 1
      BY <1>1, <1>4, <2>2
    <3>2. f[next[i]] \in V /\ f[i] = step[i][f[next[i]]]
      <4> HIDE DEF V, Stops, next, step
      <4> QED
        BY <1>6, <1>7, <3>1 DEF Solution
    <3>3. \A v \in V : step[i][v] = Front(i) \o v
      BY <3>1
    <3> HIDE DEF V, step
    <3>4. f[i] = Front(i) \o f[next[i]]
      BY <3>2, <3>3
    <3> HIDE DEF next, n
    <3> QED
      BY <1>4, <3>1, <3>4 DEF Front
  <2> QED
    BY <2>1, <2>2
<1>9. MeansFrom(f, text, color)
  <2> HIDE DEF V
  <2> QED
    BY <1>7, <1>8 DEF MeansFrom, Pair
<1> DEFINE g == CHOOSE h : MeansFrom(h, text, color)
<1>10. MeansFrom(g, text, color)
  BY <1>9
<1>11. Meaning(text, color) = g[1]
  BY DEF Meaning, MeansFrom
<1> QED
  BY <1>10, <1>11

\* Joining three sequences does not depend on which two are joined first.
LEMMA Regroup ==
    ASSUME NEW S, NEW s \in Seq(S), NEW t \in Seq(S), NEW u \in Seq(S)
    PROVE  (s \o t) \o u = s \o (t \o u)
  BY ConcatAssociative

\* Characters of a text are its first one and then the others, whatever follows.
OneCharacterOff(text, i, size) ==
    \A end \in Seq(Glyph(text)) :
        Characters(text, i, size + 1) \o end
            = <<<<"text", text[i]>>>> \o (Characters(text, i + 1, size) \o end)

LEMMA CharactersGrow ==
    ASSUME NEW text, IsText(text), NEW i \in Nat, i >= 1, NEW size \in Nat,
           i + (size + 1) <= Len(text) + 1
    PROVE  OneCharacterOff(text, i, size)
<1> SUFFICES ASSUME NEW end \in Seq(Glyph(text))
               PROVE  Characters(text, i, size + 1) \o end
                         = <<<<"text", text[i]>>>> \o (Characters(text, i + 1, size) \o end)
  BY DEF OneCharacterOff
<1> DEFINE all == Characters(text, i, size + 1)
           tail == Characters(text, i + 1, size)
           head == <<<<"text", text[i]>>>>
           G == Glyph(text)
<1>0. i + 1 \in Nat /\ i + 1 >= 1 /\ size + 1 \in Nat /\ (i + 1) + size <= Len(text) + 1 /\ i \in 1 .. Len(text)
  BY TextFacts
<1>1. /\ all \in Seq(G) /\ Len(all) = size + 1
      /\ \A k \in 1 .. size + 1 : all[k] = <<"text", text[i + k - 1]>>
  BY <1>0, CharactersFacts
<1>2. /\ tail \in Seq(G) /\ Len(tail) = size
      /\ \A k \in 1 .. size : tail[k] = <<"text", text[i + 1 + k - 1]>>
  BY <1>0, CharactersFacts
<1>3. head \in Seq(G) /\ Len(head) = 1 /\ head[1] = <<"text", text[i]>>
  BY <1>0, ShownFacts
<1> HIDE DEF all, tail, head, G
<1>4. /\ head \o tail \in Seq(G) /\ Len(head \o tail) = size + 1
      /\ \A k \in 1 .. size + 1 : (head \o tail)[k] = IF k <= 1 THEN head[k] ELSE tail[k - 1]
  <2>1. /\ head \o tail \in Seq(G) /\ Len(head \o tail) = Len(head) + Len(tail)
        /\ \A k \in 1 .. Len(head) + Len(tail) :
              (head \o tail)[k] = IF k <= Len(head) THEN head[k] ELSE tail[k - Len(head)]
    BY <1>2, <1>3, ConcatProperties
  <2>2. Len(head) + Len(tail) = size + 1
    BY <1>2, <1>3
  <2> QED
    BY <1>2, <1>3, <2>1, <2>2
<1>5. ASSUME NEW k \in 1 .. size + 1 PROVE all[k] = (head \o tail)[k]
  <2>1. CASE k = 1
    <3>1. 1 \in 1 .. size + 1 /\ i + 1 - 1 = i /\ 1 <= 1
      OBVIOUS
    <3>2. all[1] = <<"text", text[i + 1 - 1]>>
      BY <1>1, <3>1
    <3> QED
      BY <1>3, <1>4, <2>1, <3>1, <3>2
  <2>2. CASE k # 1
    <3>1. k - 1 \in 1 .. size /\ ~ (k <= 1) /\ i + 1 + (k - 1) - 1 = i + k - 1
      BY <2>2
    <3>2. tail[k - 1] = <<"text", text[i + 1 + (k - 1) - 1]>>
      BY <1>2, <3>1
    <3> QED
      BY <1>1, <1>4, <3>1, <3>2
  <2> QED
    BY <2>1, <2>2
<1>6. all = head \o tail
  BY <1>1, <1>4, <1>5, SeqEqual
<1>7. end \in Seq(G)
  BY DEF G
<1>8. (head \o tail) \o end = head \o (tail \o end)
  <2>1. head \in Seq(G) /\ tail \in Seq(G) /\ end \in Seq(G)
    BY <1>2, <1>3, <1>7
  <2> QED
    BY <2>1, Regroup
<1> QED
  BY <1>6, <1>8 DEF all, head, tail

\* A compiled pattern is rendered as what its characters mean, one by one: escaped
\* percent signs, unknown directives and a % at the end included (compile_pattern,
\* render_pattern).
THEOREM CompileMeans ==
    ASSUME NEW text, IsText(text), NEW color \in BOOLEAN
    PROVE  Render(text, Compile(text), color) = Meaning(text, color)
<1> DEFINE n == Len(text)
           S == Piece(text)
           R(s) == Render(text, s, color)
<1>0. n \in Nat
  BY TextFacts
<1>1. PICK f \in [1 .. n + 1 -> Seq(S)] : CompilesFrom(f, text) /\ Compile(text) = f[1]
  BY CompileFunction
<1>2. PICK g : MeansFrom(g, text, color) /\ Meaning(text, color) = g[1]
  BY MeaningFunction
<1> DEFINE Agree(i) == R(f[i]) = g[i]
<1>3. ASSUME NEW i \in 1 .. n + 1
      PROVE  g[i] = IF i > n THEN <<>>
                    ELSE IF text[i] = "%" /\ i < n THEN Shown(text[i + 1], color) \o g[i + 2]
                    ELSE <<<<"text", text[i]>>>> \o g[i + 1]
  BY <1>2 DEF MeansFrom
<1>4. ASSUME NEW i \in 1 .. n + 1, \A k \in i + 1 .. n + 1 : Agree(k)
      PROVE  Agree(i)
  <2>0. i \in Nat /\ i >= 1
    BY <1>0
  <2>1. CASE i = n + 1
    <3>1. f[i] = <<>>
      BY <1>1, <2>1, CompileStep
    <3>2. i > n
      BY <1>0, <2>1
    <3>3. g[i] = <<>>
      <4> HIDE DEF n
      <4> QED
        BY <1>3, <3>2
    <3> QED
      BY <3>1, <3>3, RenderNothing
  <2>2. CASE i = n
    <3>1. f[i] = Literal(i, 1) /\ ~ (i > n) /\ ~ (i < n) /\ i + 1 = n + 1
      BY <1>0, <1>1, <2>2, CompileStep
    <3>2. g[i] = <<<<"text", text[i]>>>> \o g[i + 1]
      <4> HIDE DEF n
      <4> QED
        BY <1>3, <3>1
    <3>3. g[i + 1] = <<>>
      <4>1. i + 1 > n /\ i + 1 \in 1 .. n + 1
        BY <1>0, <2>2
      <4> HIDE DEF n
      <4> QED
        BY <1>3, <4>1
    <3>4. Literal(i, 1) \in Seq(S) /\ Literal(i, 1) \o <<>> = Literal(i, 1)
      <4>1. Literal(i, 1) \in Seq(S)
        <5>1. 1 \in Nat /\ i + 1 <= n + 1
          BY <1>0, <2>2
        <5> QED
          BY <2>0, <5>1, LiteralFacts
      <4> QED
        BY <4>1, ConcatEmptySeq
    <3>5. R(Literal(i, 1) \o <<>>) = Characters(text, i, 1) \o R(<<>>)
      <4>1. 1 \in Nat /\ i + 1 <= n + 1 /\ <<>> \in Seq(S)
        BY <1>0, <2>2, EmptySeq
      <4> QED
        BY <2>0, <4>1, RenderLiteral
    <3>6. Characters(text, i, 1) = <<<<"text", text[i]>>>>
      BY <2>0 DEF Characters
    <3>7. R(<<>>) = <<>>
      BY RenderNothing
    <3> QED
      BY <3>1, <3>2, <3>3, <3>4, <3>5, <3>6, <3>7
  <2>3. CASE i < n /\ text[i] = "%"
    <3>1. f[i] = Directive(text, i) \o f[i + 2]
      BY <1>1, <2>3, CompileStep
    <3>2. /\ i \in 1 .. n - 1 /\ i + 2 \in i + 1 .. n + 1 /\ i + 2 \in 1 .. n + 1 /\ i + 1 \in 1 .. n
          /\ ~ (i > n) /\ i + 2 <= n + 1
      BY <1>0, <2>0, <2>3
    <3>3. PICK piece \in Piece(text) :
              /\ Directive(text, i) = <<piece>>
              /\ IF text[i + 1] \in Known
                 THEN piece = [token |-> text[i + 1], offset |-> 0, size |-> 0]
                 ELSE piece = [token |-> "literal", offset |-> i, size |-> 2]
      BY <3>2, DirectiveFacts
    <3>4. f[i + 2] \in Seq(S) /\ R(f[i + 2]) = g[i + 2]
      BY <1>1, <1>4, <3>2
    <3>5. R(f[i]) = RenderPiece(text, piece, color) \o g[i + 2]
      <4>1. f[i] = <<piece>> \o f[i + 2] /\ f[i + 2] \in Seq(Piece(text))
        BY <3>1, <3>3, <3>4
      <4>2. R(<<piece>> \o f[i + 2]) = RenderPiece(text, piece, color) \o R(f[i + 2])
        BY <4>1, RenderPrepended
      <4> QED
        BY <3>4, <4>1, <4>2
    <3>6. g[i] = Shown(text[i + 1], color) \o g[i + 2]
      <4> HIDE DEF n
      <4> QED
        BY <1>3, <2>3, <3>2
    <3>7. RenderPiece(text, piece, color) = Shown(text[i + 1], color)
      <4>1. CASE text[i + 1] \in Known
        <5>1. piece.token = text[i + 1] /\ piece.token # "literal"
          BY <3>3, <4>1 DEF Known
        <5> QED
          BY <5>1, RenderPieceFacts
      <4>2. CASE text[i + 1] \notin Known
        <5>1. piece.token = "literal" /\ piece.offset = i /\ piece.size = 2
          BY <3>3, <4>2
        <5>2. RenderPiece(text, piece, color) = Characters(text, i, 2)
          BY <5>1, RenderPieceFacts
        <5>3. Characters(text, i, 2) = <<<<"text", text[i]>>, <<"text", text[i + 1]>>>>
          BY <2>0 DEF Characters
        <5>4. Shown(text[i + 1], color) = <<<<"text", "%">>, <<"text", text[i + 1]>>>>
          BY <4>2 DEF Shown, Known
        <5> QED
          BY <2>3, <5>2, <5>3, <5>4
      <4> QED
        BY <4>1, <4>2
    <3> QED
      BY <3>5, <3>6, <3>7
  <2>4. CASE i < n /\ text[i] # "%"
    <3>1. PICK size \in Nat, rest \in Seq(Piece(text)) :
              /\ i + size + 1 <= Len(text) + 1
              /\ f[i] = Literal(i, size + 1) \o rest
              /\ f[i + 1] = Literal(i + 1, size) \o rest
      <4>1. i < Len(text) /\ text[i] # "%" /\ IsText(text) /\ i \in 1 .. Len(text) + 1
        BY <2>4
      <4>2. OneCharacterOn(f, text, i)
        BY <1>1, <4>1, CompileStep
      <4> QED
        BY <4>2 DEF OneCharacterOn
    <3>2. /\ i + (size + 1) <= n + 1 /\ (i + 1) + size <= n + 1
          /\ size + 1 \in Nat /\ i + 1 \in Nat /\ i + 1 >= 1 /\ i + 1 \in i + 1 .. n + 1 /\ ~ (i > n)
          /\ i \in 1 .. Len(text)
      BY <1>0, <2>0, <2>4, <3>1
    <3> DEFINE all == Characters(text, i, size + 1)
               tail == Characters(text, i + 1, size)
               head == <<<<"text", text[i]>>>>
               end == R(rest)
    <3>3. R(f[i]) = all \o end /\ R(f[i + 1]) = tail \o end
      <4>1. Render(text, Literal(i, size + 1) \o rest, color) = all \o end
        <5>1. i + (size + 1) <= Len(text) + 1
          BY <3>2
        <5> QED
          BY <2>0, <3>1, <3>2, <5>1, RenderLiteral
      <4>2. Render(text, Literal(i + 1, size) \o rest, color) = tail \o end
        <5>1. (i + 1) + size <= Len(text) + 1
          BY <3>2
        <5> QED
          BY <3>1, <3>2, <5>1, RenderLiteral
      <4> QED
        BY <3>1, <4>1, <4>2
    <3>4. g[i] = head \o g[i + 1]
      <4> HIDE DEF n
      <4> QED
        BY <1>3, <2>4, <3>2
    <3>5. R(f[i + 1]) = g[i + 1]
      BY <1>4, <3>2
    <3>6. end \in Seq(Glyph(text))
      <4>1. PICK h \in [0 .. Len(rest) -> Seq(Glyph(text))] :
                RendersTo(h, text, rest, color) /\ Render(text, rest, color) = h[Len(rest)]
        BY <3>1, RenderFunction
      <4>2. Len(rest) \in 0 .. Len(rest)
        BY LenProperties
      <4> QED
        BY <4>1, <4>2
    <3>7. all \o end = head \o (tail \o end)
      <4>1. i \in Nat /\ i >= 1 /\ size \in Nat /\ i + (size + 1) <= Len(text) + 1 /\ IsText(text)
        BY <2>0, <3>2
      <4>2. \A e \in Seq(Glyph(text)) :
                Characters(text, i, size + 1) \o e
                    = <<<<"text", text[i]>>>> \o (Characters(text, i + 1, size) \o e)
        <5>1. OneCharacterOff(text, i, size)
          BY <4>1, CharactersGrow
        <5> QED
          BY <5>1 DEF OneCharacterOff
      <4> QED
        BY <3>6, <4>2
    <3> HIDE DEF all, tail, head, end
    <3> QED
      BY <3>3, <3>4, <3>5, <3>7
  <2>5. i = n + 1 \/ i = n \/ i < n
    BY <1>0, <2>0
  <2> QED
    BY <2>1, <2>2, <2>3, <2>4, <2>5
<1>5. \A i \in 1 .. n + 1 : Agree(i)
  <2> DEFINE T == {i \in 1 .. n + 1 : ~Agree(i)}
  <2> HIDE DEF Agree
  <2>1. SUFFICES ASSUME T # {} PROVE FALSE
    OBVIOUS
  <2>2. PICK i \in T : \A k \in T : k <= i
    <3>1. T \in SUBSET (1 .. n + 1) /\ n + 1 \in Nat
      BY <1>0
    <3> HIDE DEF T
    <3> QED
      BY <2>1, <3>1, LastFailure
  <2>3. \A k \in i + 1 .. n + 1 : Agree(k)
    BY <1>0, <2>2
  <2> QED
    BY <1>4, <2>2, <2>3
<1>6. Agree(1)
  <2>1. 1 \in 1 .. n + 1
    BY <1>0
  <2> HIDE DEF Agree
  <2> QED
    BY <1>5, <2>1
<1> QED
  BY <1>1, <1>2, <1>6

-----------------------------------------------------------------------------
(* The default patterns *)

\* A directive whose % does not follow another % is found.
LEMMA EscapeAlone ==
    ASSUME NEW text, IsText(text), NEW k \in 1 .. Len(text) - 1,
           text[k] = "%", k > 1 => text[k - 1] # "%"
    PROVE  text[k + 1] \in Escapes(text)
<1> DEFINE n == Len(text)
<1>1. n \in Nat /\ k \in Nat /\ 1 <= k /\ k < n
  BY TextFacts
<1>2. PICK f : EscapesFrom(f, text) /\ Escapes(text) = f[1]
  BY EscapesFunction
<1>3. ASSUME NEW i \in 1 .. n + 1
      PROVE  f[i] = IF i >= n THEN {} ELSE IF text[i] # "%" THEN f[i + 1] ELSE {text[i + 1]} \cup f[i + 2]
  BY <1>2 DEF EscapesFrom
<1> DEFINE T == {i \in 1 .. k : text[k + 1] \notin f[i]}
<1>4. SUFFICES ASSUME T # {} PROVE FALSE
  <2>1. 1 \in 1 .. k
    BY <1>1
  <2> QED
    BY <1>2, <2>1
<1>5. PICK i \in T : \A j \in T : j <= i
  <2>1. T \in SUBSET (1 .. k) /\ k \in Nat
    BY <1>1
  <2> HIDE DEF T
  <2> QED
    BY <1>4, <2>1, LastFailure
<1>6. i \in 1 .. n + 1 /\ i < n /\ i \in Nat /\ i <= k /\ text[k + 1] \notin f[i]
  BY <1>1, <1>5
<1>7. ~ (i >= n)
  BY <1>1, <1>6
<1>8. CASE i = k
  <2> HIDE DEF n, T
  <2> QED
    BY <1>3, <1>6, <1>7, <1>8
<1>9. CASE i < k /\ text[i] # "%"
  <2>1. i + 1 \in 1 .. k /\ i + 1 > i
    BY <1>5, <1>9
  <2>2. text[k + 1] \in f[i + 1]
    BY <1>5, <2>1
  <2> HIDE DEF n, T
  <2> QED
    BY <1>3, <1>6, <1>7, <1>9, <2>2
<1>10. CASE i < k /\ text[i] = "%"
  <2>1. i # k - 1 /\ k > 1
    BY <1>1, <1>6, <1>10
  <2>2. i + 2 \in 1 .. k /\ i + 2 > i
    BY <1>1, <1>6, <1>10, <2>1
  <2>3. text[k + 1] \in f[i + 2]
    BY <1>5, <2>2
  <2> HIDE DEF n, T
  <2> QED
    BY <1>3, <1>6, <1>7, <1>10, <2>3
<1> QED
  BY <1>1, <1>6, <1>8, <1>9, <1>10

\* Both default patterns show the elapsed time, the time of day and the file, so what
\* a record captures for the plain one is enough for the coloured one
\* (config_pattern_program, default_pattern_type).
LEMMA DefaultsShowTheSame ==
    /\ IsText(DefaultPlain) /\ IsText(DefaultColor)
    /\ {"H", "*", "g"} \subseteq Escapes(DefaultPlain)
    /\ {"H", "*", "g"} \subseteq Escapes(DefaultColor)
<1> DEFINE Signs == {"[", "%", "H", ":", "M", "S", ".", "e", "]", " ", "*", "n", "l", "|", "g", "#",
                     ">", "v", "^", "$"}
<1>1. /\ DefaultPlain \in Seq(Signs) /\ Len(DefaultPlain) = 38
      /\ DefaultPlain[1] = "[" /\ DefaultPlain[2] = "%" /\ DefaultPlain[3] = "H"
      /\ DefaultPlain[15] = "[" /\ DefaultPlain[16] = "%" /\ DefaultPlain[17] = "*"
      /\ DefaultPlain[26] = "|" /\ DefaultPlain[27] = "%" /\ DefaultPlain[28] = "g"
  BY DEF DefaultPlain
<1>2. /\ DefaultColor \in Seq(Signs) /\ Len(DefaultColor) = 42
      /\ DefaultColor[1] = "[" /\ DefaultColor[2] = "%" /\ DefaultColor[3] = "H"
      /\ DefaultColor[15] = "[" /\ DefaultColor[16] = "%" /\ DefaultColor[17] = "*"
      /\ DefaultColor[30] = "|" /\ DefaultColor[31] = "%" /\ DefaultColor[32] = "g"
  BY DEF DefaultColor
<1> HIDE DEF Signs
<1>3. IsText(DefaultPlain) /\ IsText(DefaultColor)
  BY <1>1, <1>2, SeqIsText
<1>4. /\ DefaultPlain[2 + 1] \in Escapes(DefaultPlain)
      /\ DefaultPlain[16 + 1] \in Escapes(DefaultPlain)
      /\ DefaultPlain[27 + 1] \in Escapes(DefaultPlain)
  BY <1>1, <1>3, EscapeAlone
<1>5. /\ DefaultColor[2 + 1] \in Escapes(DefaultColor)
      /\ DefaultColor[16 + 1] \in Escapes(DefaultColor)
      /\ DefaultColor[31 + 1] \in Escapes(DefaultColor)
  BY <1>2, <1>3, EscapeAlone
<1> QED
  BY <1>1, <1>2, <1>3, <1>4, <1>5

\* The pattern of a configuration is the default one, or the text of an option.
LEMMA PatternOfPack ==
    ASSUME NEW options, ValidPack(options)
    PROVE  UsesDefault(options) \/ IsText(Tail(PatternType(options)))
<1>1. options \in Seq(Seq(STRING)) /\ DOMAIN options = 1 .. Len(options)
      /\ \A i \in 1 .. Len(options) : options[i] \in Seq(STRING)
  BY PackIsSequence
<1>2. CASE \A j \in DOMAIN options : KindOf(options[j]) # "pattern"
  BY <1>2, ResolveTakesOnly DEF UsesDefault, PatternType
<1>3. CASE \E j \in DOMAIN options : KindOf(options[j]) = "pattern"
  <2>1. PICK j \in DOMAIN options : KindOf(options[j]) = "pattern"
    BY <1>3
  <2>2. PatternType(options) = options[j]
    BY <2>1, ResolveTakesOnly DEF PatternType
  <2>3. options[j] # <<>>
    <3>1. ChannelOption(options[j])
      BY DEF ValidPack
    <3> QED
      BY <2>1, <3>1, Kinds DEF ChannelOption
  <2>4. options[j] \in Seq(STRING)
    BY <1>1
  <2>5. Tail(options[j]) \in Seq(STRING)
    BY <2>3, <2>4, HeadTailProperties
  <2> QED
    BY <2>2, <2>5, SeqIsText
<1> QED
  BY <1>2, <1>3

LEMMA ProgramIsText ==
    ASSUME NEW options, ValidPack(options), NEW color \in BOOLEAN
    PROVE  /\ IsText(Program(options, color)) /\ IsText(CaptureText(options))
           /\ \/ Program(options, color) = CaptureText(options)
              \/ Program(options, color) = DefaultColor /\ CaptureText(options) = DefaultPlain
<1>1. CASE UsesDefault(options)
  <2>1. CaptureText(options) = DefaultPlain
    BY <1>1 DEF CaptureText
  <2>2. Program(options, color) \in {DefaultColor, DefaultPlain}
    BY <1>1 DEF Program
  <2> QED
    BY <2>1, <2>2, DefaultsShowTheSame
<1>2. CASE ~UsesDefault(options)
  <2>1. Program(options, color) = Tail(PatternType(options))
    BY <1>2 DEF Program
  <2>2. CaptureText(options) = Tail(PatternType(options))
    BY <1>2 DEF CaptureText
  <2>3. IsText(Tail(PatternType(options)))
    BY <1>2, PatternOfPack
  <2> QED
    BY <2>1, <2>2, <2>3
<1> QED
  BY <1>1, <1>2

\* What the scans of a configuration find is what the pieces of its program show.
THEOREM CapturesAgree ==
    ASSUME NEW options, ValidPack(options), NEW color \in BOOLEAN
    PROVE  LET tokens == Tokens(Compile(Program(options, color))) IN
           /\ "elapsed" \in Requirements(CaptureText(options)) <=> "*" \in tokens
           /\ "wall_clock" \in Requirements(CaptureText(options)) <=> tokens \cap WallClock # {}
           /\ UsesToken(CaptureText(options), "g") <=> "g" \in tokens
<1> DEFINE text == Program(options, color)
           captures == CaptureText(options)
           tokens == Tokens(Compile(text))
<1>1. /\ IsText(text) /\ IsText(captures)
      /\ \/ text = captures
         \/ text = DefaultColor /\ captures = DefaultPlain
  BY ProgramIsText
<1>2. tokens \cap Known = Escapes(text) \cap Known
  BY <1>1, ScansFindTokens
<1>3. {"*", "g"} \subseteq Known /\ WallClock \subseteq Known /\ "H" \in WallClock
  BY DEF Known, WallClock
<1>4. /\ "*" \in Escapes(captures) <=> "*" \in tokens
      /\ "g" \in Escapes(captures) <=> "g" \in tokens
      /\ Escapes(captures) \cap WallClock # {} <=> tokens \cap WallClock # {}
  <2> HIDE DEF text, captures, tokens
  <2>1. CASE text = captures
    BY <1>2, <1>3, <2>1
  <2>2. CASE text = DefaultColor /\ captures = DefaultPlain
    <3>1. {"H", "*", "g"} \subseteq Escapes(text) /\ {"H", "*", "g"} \subseteq Escapes(captures)
      BY <2>2, DefaultsShowTheSame
    <3> QED
      BY <1>2, <1>3, <3>1
  <2> QED
    BY <1>1, <2>1, <2>2
<1>5. /\ "elapsed" \in Requirements(captures) <=> "*" \in Escapes(captures)
      /\ "wall_clock" \in Requirements(captures) <=> Escapes(captures) \cap WallClock # {}
      /\ UsesToken(captures, "g") <=> "g" \in Escapes(captures)
  <2> HIDE DEF captures
  <2> QED
    BY DEF Requirements, UsesToken
<1> QED
  BY <1>4, <1>5
==============================================================================
