------------------------- MODULE SkillEnginesProofs -------------------------
(* What the skill engines compute is what the rules of the games say: the    *)
(* loop of the runner stops at the first obstacle that was not jumped, and   *)
(* the counts of the anagram decide whether a word can be laid with tiles.   *)
EXTENDS SkillEngines, FiniteSums, FunctionTheorems

---------------------------------------------------------------------------
(* The replay of a run.                                                     *)

\* of the ticks of a set from t on, one is the first
LEMMA FirstTick ==
  ASSUME NEW L \in Nat, NEW B \in SUBSET (0 .. L), B # {}
  PROVE  \E n \in B : \A m \in B : n <= m
BY SmallestNumber

\* The replay of a run ends at the first obstacle the runner did not jump, or
\* at the end of the course, whatever the course and the log of jumps.
THEOREM ReplayStops ==
  ASSUME NEW course, NEW jumped
  PROVE  LET n == simulateRun(course, jumped)
             hit(t) == t \in course /\ t \notin jumped
         IN /\ n \in 0 .. CourseLength
            /\ \A t \in 0 .. n - 1 : ~hit(t)
            /\ n < CourseLength => hit(n)
<1> DEFINE hit(t) == t \in course /\ t \notin jumped
           stop(t) == t = CourseLength \/ hit(t)
           L == CourseLength
           Stops(t) == {n \in t .. L : stop(n)}
           first(t) == CHOOSE n \in Stops(t) : \A m \in Stops(t) : n <= m
           IsReplay(f) == f = [t \in 0 .. L |-> IF stop(t) THEN t ELSE f[t + 1]]
<1>1. L \in Nat \ {0}
  BY EnginesAssumption
<1>2. ASSUME NEW t \in 0 .. L
      PROVE  first(t) \in Stops(t) /\ \A m \in Stops(t) : first(t) <= m
  <2>1. Stops(t) \in SUBSET (0 .. L) /\ L \in Stops(t)
    BY <1>1
  <2> HIDE DEF Stops
  <2>2. \E n \in Stops(t) : \A m \in Stops(t) : n <= m
    BY <1>1, <2>1, FirstTick
  <2> QED BY <2>2
<1>3. ASSUME NEW t \in 0 .. L, stop(t) PROVE first(t) = t
  <2>1. t \in Stops(t)
    BY <1>1, <1>3
  <2>2. first(t) \in t .. L /\ first(t) <= t
    BY <1>2, <2>1
  <2> HIDE DEF first
  <2> QED BY <1>1, <2>2
<1>4. ASSUME NEW t \in 0 .. L, ~stop(t) PROVE t + 1 \in 0 .. L /\ first(t) = first(t + 1)
  <2>1. t + 1 \in 0 .. L
    BY <1>1, <1>4
  <2>2. Stops(t) = Stops(t + 1)
    BY <1>1, <1>4, <2>1
  <2> QED BY <2>1, <2>2
<1>5. \E f : IsReplay(f)
  <2> DEFINE g == [t \in 0 .. L |-> first(t)]
  <2>1. ASSUME NEW t \in 0 .. L PROVE g[t] = IF stop(t) THEN t ELSE g[t + 1]
    <3> HIDE DEF first, stop
    <3> QED BY <1>3, <1>4
  <2>2. IsReplay(g)
    <3>1. g = [t \in 0 .. L |-> g[t]]
      OBVIOUS
    <3> HIDE DEF g, stop
    <3> QED BY <2>1, <3>1
  <2> QED BY <2>2
<1>6. PICK f : IsReplay(f) /\ simulateRun(course, jumped) = f[0]
  BY <1>5 DEF simulateRun
<1>7. \A t \in 0 .. L : f[t] = IF stop(t) THEN t ELSE f[t + 1]
  <2> HIDE DEF stop
  <2> QED BY <1>6
<1>8. PICK n \in Stops(0) : \A m \in Stops(0) : n <= m
  <2>1. 0 \in 0 .. L
    BY <1>1
  <2> HIDE DEF first, Stops
  <2> QED BY <1>2, <2>1
<1>9. n \in 0 .. L /\ stop(n) /\ \A t \in 0 .. n - 1 : ~stop(t)
  BY <1>1, <1>8
<1>10. \A t \in 0 .. n : f[t] = f[0]
  <2> DEFINE Off == {t \in 0 .. n : f[t] # f[0]}
  <2> SUFFICES ASSUME Off # {} PROVE FALSE
    OBVIOUS
  <2>1. PICK t \in Off : \A u \in Off : t <= u
    <3>1. n \in Nat /\ Off \in SUBSET (0 .. n)
      BY <1>1, <1>9
    <3> HIDE DEF Off
    <3> QED BY <3>1, FirstTick
  <2>2. t \in 1 .. n /\ t - 1 \in 0 .. n - 1 /\ t - 1 \in 0 .. L
    BY <1>1, <1>9, <2>1
  <2>3. f[t - 1] = f[0]
    BY <2>1, <2>2
  <2>4. f[t - 1] = f[(t - 1) + 1]
    <3>1. ~stop(t - 1)
      BY <1>9, <2>2
    <3> HIDE DEF stop
    <3> QED BY <1>7, <2>2, <3>1
  <2>5. (t - 1) + 1 = t
    BY <2>2
  <2> QED BY <2>1, <2>3, <2>4, <2>5
<1>11. f[n] = n
  <2> HIDE DEF stop
  <2> QED BY <1>7, <1>9
<1>12. simulateRun(course, jumped) = n
  <2>1. n \in 0 .. n
    BY <1>1, <1>9
  <2>2. f[0] = n
    BY <1>10, <1>11, <2>1
  <2> HIDE DEF IsReplay
  <2> QED BY <1>6, <2>2
<1> QED BY <1>1, <1>9, <1>12

---------------------------------------------------------------------------
(* Spelling from a rack.                                                    *)

\* a set that is not larger can be mapped into the other one
LEMMA SmallerSetFits ==
  ASSUME NEW S, NEW T, IsFiniteSet(S), IsFiniteSet(T), Cardinality(S) <= Cardinality(T)
  PROVE  \E h \in [S -> T] : \A x, y \in S : h[x] = h[y] => x = y
<1>1. PICK f \in Bijection(S, 1 .. Cardinality(S)) : TRUE
  <2>1. ExistsBijection(1 .. Cardinality(S), S)
    BY FS_CardinalityType
  <2> QED BY <2>1, Fun_ExistsBijSymmetric DEF ExistsBijection
<1>2. PICK g \in Bijection(1 .. Cardinality(T), T) : TRUE
  BY FS_CardinalityType DEF ExistsBijection
<1>3. Cardinality(S) \in Nat /\ Cardinality(T) \in Nat
  BY FS_CardinalityType
<1>4. /\ f \in [S -> 1 .. Cardinality(S)]
      /\ \A x, y \in S : f[x] = f[y] => x = y
  BY <1>1 DEF Bijection, Injection, IsInjective
<1>5. /\ g \in [1 .. Cardinality(T) -> T]
      /\ \A i, j \in 1 .. Cardinality(T) : g[i] = g[j] => i = j
  BY <1>2 DEF Bijection, Injection, IsInjective
<1> DEFINE h == [x \in S |-> g[f[x]]]
<1>6. \A x \in S : f[x] \in 1 .. Cardinality(T)
  BY <1>3, <1>4
<1>7. h \in [S -> T] /\ \A x, y \in S : h[x] = h[y] => x = y
  BY <1>4, <1>5, <1>6
<1> QED BY <1>7

\* Comparing counts letter by letter decides whether the word can be laid with
\* the tiles of the rack, no tile taken twice.
THEOREM CountsDecideSpelling ==
  ASSUME NEW word, NEW rack, IsFiniteSet(DOMAIN word), IsFiniteSet(DOMAIN rack)
  PROVE  isBuildableFromRack(word, rack) <=> Spelt(word, rack)
<1> DEFINE At(l, letters) == {i \in DOMAIN letters : letters[i] = l}
<1>1. ASSUME NEW l PROVE IsFiniteSet(At(l, word)) /\ IsFiniteSet(At(l, rack))
  <2>1. At(l, word) \in SUBSET DOMAIN word /\ At(l, rack) \in SUBSET DOMAIN rack
    OBVIOUS
  <2> HIDE DEF At
  <2> QED BY <2>1, FS_Subset
<1>2. ASSUME isBuildableFromRack(word, rack) PROVE Spelt(word, rack)
  <2> DEFINE Fits(l, h) == /\ h \in [At(l, word) -> At(l, rack)]
                           /\ \A x, y \in At(l, word) : h[x] = h[y] => x = y
             lay(l) == CHOOSE h : Fits(l, h)
             tile == [i \in DOMAIN word |-> lay(word[i])[i]]
  <2>1. ASSUME NEW i \in DOMAIN word PROVE Fits(word[i], lay(word[i]))
    <3>1. Cardinality(At(word[i], word)) <= Cardinality(At(word[i], rack))
      BY <1>2 DEF isBuildableFromRack, CountOf
    <3>2. PICK l : l = word[i]
      OBVIOUS
    <3>3. \E h \in [At(l, word) -> At(l, rack)] :
             \A x, y \in At(l, word) : h[x] = h[y] => x = y
      <4>1. IsFiniteSet(At(l, word)) /\ IsFiniteSet(At(l, rack))
        BY <1>1
      <4>2. Cardinality(At(l, word)) <= Cardinality(At(l, rack))
        BY <3>1, <3>2
      <4> HIDE DEF At
      <4> QED BY <4>1, <4>2, SmallerSetFits
    <3>4. \E h : Fits(l, h)
      BY <3>3
    <3> HIDE DEF Fits
    <3> QED BY <3>2, <3>4
  <2>2. ASSUME NEW i \in DOMAIN word
        PROVE  tile[i] \in DOMAIN rack /\ rack[tile[i]] = word[i]
    <3>1. i \in At(word[i], word)
      OBVIOUS
    <3>2. lay(word[i])[i] \in At(word[i], rack)
      <4> HIDE DEF lay, At
      <4> QED BY <2>1, <3>1
    <3> HIDE DEF lay
    <3> QED BY <3>2
  <2>3. ASSUME NEW i \in DOMAIN word, NEW j \in DOMAIN word, tile[i] = tile[j]
        PROVE  i = j
    <3>1. word[i] = word[j]
      <4> HIDE DEF tile
      <4> QED BY <2>2, <2>3
    <3>2. i \in At(word[i], word) /\ j \in At(word[i], word)
      BY <3>1
    <3>3. lay(word[i])[i] = lay(word[i])[j]
      <4> HIDE DEF lay
      <4> QED BY <2>3, <3>1
    <3> HIDE DEF lay, At, tile
    <3> QED BY <2>1, <3>2, <3>3
  <2>4. tile \in [DOMAIN word -> DOMAIN rack]
    <3> HIDE DEF lay
    <3> QED BY <2>2
  <2> HIDE DEF tile
  <2> QED BY <2>2, <2>3, <2>4 DEF Spelt
<1>3. ASSUME Spelt(word, rack) PROVE isBuildableFromRack(word, rack)
  <2>1. PICK tile \in [DOMAIN word -> DOMAIN rack] :
          /\ \A i, j \in DOMAIN word : tile[i] = tile[j] => i = j
          /\ \A i \in DOMAIN word : rack[tile[i]] = word[i]
    BY <1>3 DEF Spelt
  <2>2. ASSUME NEW i \in DOMAIN word
        PROVE  Cardinality(At(word[i], word)) <= Cardinality(At(word[i], rack))
    <3> DEFINE S == At(word[i], word)
               T == At(word[i], rack)
               f == [j \in S |-> tile[j]]
    <3>1. f \in [S -> T] /\ \A j, k \in S : f[j] = f[k] => j = k
      BY <2>1
    <3>2. f \in Injection(S, T)
      <4> HIDE DEF f, S, T
      <4> QED BY <3>1 DEF Injection, IsInjective
    <3>3. IsFiniteSet(T)
      BY <1>1
    <3> HIDE DEF f, S, T
    <3>4. Cardinality(S) <= Cardinality(T)
      BY <3>2, <3>3, FS_Injection
    <3> QED BY <3>4 DEF S, T
  <2> QED BY <2>2 DEF isBuildableFromRack, CountOf
<1> QED BY <1>2, <1>3

---------------------------------------------------------------------------
(* What the engines accept.                                                 *)

\* A positive score is what the submission earns by the rules of the game, in
\* a time that has passed.
LEMMA EnginesEarn ==
  ASSUME NEW game \in SkillGameKeys, NEW s \in SkillSessions, NEW submission,
         NEW elapsed \in Nat, NEW o, o = validate(game, s, submission, elapsed),
         o.score \in Nat, o.score > 0
  PROVE  \E time \in 0 .. elapsed : Earns(game, s, submission, o.score, time)
<1>1. o # Rejected
  BY DEF Rejected
<1>2. CASE game = "anagram"
  <2> DEFINE words == submission.value
             counting == CountingWords(words, Rack(s))
             found == {w \in Dictionary :
                         /\ Len(w) >= MinWordLength
                         /\ \E i \in DOMAIN words : words[i] = w
                         /\ Spelt(w, Rack(s))}
  <2>1. IsFiniteSet(DOMAIN Rack(s))
    <3>1. DOMAIN Rack(s) = DOMAIN RawLetters[s]
      BY DEF Rack, deriveLetters
    <3> QED BY <3>1, EnginesAssumption
  <2>2. \A w \in Dictionary : isBuildableFromRack(w, Rack(s)) <=> Spelt(w, Rack(s))
    BY <2>1, EnginesAssumption, CountsDecideSpelling
  <2>3. counting = found
    BY <2>2 DEF CountingWords
  <2>4. o = ValidateWords(s, submission, elapsed)
    BY <1>2 DEF validate
  <2> HIDE DEF counting
  <2>5. /\ submission.field = "words" /\ ~(Cardinality(counting) * WordTime > elapsed)
        /\ o = Accepted(TotalLength(counting), LettersPerPoint)
    BY <1>1, <2>4 DEF ValidateWords, counting
  <2>6. Cardinality(found) \in Nat
    <3>1. IsFiniteSet(Dictionary) /\ found \in SUBSET Dictionary
      BY EnginesAssumption
    <3> HIDE DEF found
    <3> QED BY <3>1, FS_Subset, FS_CardinalityType
  <2>7. o.score = TotalLength(found)
    BY <2>3, <2>5 DEF Accepted
  <2>8. Earns(game, s, submission, o.score, Cardinality(found) * WordTime)
    BY <1>2, <2>5, <2>7 DEF Earns
  <2>9. Cardinality(found) * WordTime \in 0 .. elapsed
    <3>1. PICK n \in Nat : n = Cardinality(found)
      BY <2>6
    <3>2. ~(n * WordTime > elapsed)
      BY <2>3, <2>5, <3>1
    <3>3. n * WordTime \in Nat
      BY EnginesAssumption
    <3> QED BY <3>1, <3>2, <3>3
  <2> HIDE DEF found
  <2> QED BY <2>8, <2>9
<1>3. CASE game # "anagram"
  <2> DEFINE jumps == submission.value
             jumped == {jumps[i] : i \in DOMAIN jumps}
  <2>1. game = "endless_runner" /\ o = ValidateRun(s, submission, elapsed)
    BY <1>3 DEF validate, SkillGameKeys
  <2>2. PICK n : n = simulateRun(deriveCourse(s), jumped)
    OBVIOUS
  <2>3. /\ submission.field = "jumps" /\ ~(n * TickTime > elapsed)
        /\ o = Accepted(n, TicksPerPoint)
    BY <1>1, <2>1, <2>2 DEF ValidateRun
  <2>4. o.score = n
    BY <2>3 DEF Accepted
  <2>5. LET hit(t) == t \in deriveCourse(s) /\ t \notin jumped
        IN /\ n \in 0 .. CourseLength
           /\ \A t \in 0 .. n - 1 : ~hit(t)
           /\ n < CourseLength => hit(n)
    <3> HIDE DEF jumped
    <3> QED BY <2>2, ReplayStops
  <2>6. Survives(s, jumps, n)
    BY <2>5 DEF Survives, deriveCourse
  <2>7. Earns(game, s, submission, o.score, n * TickTime)
    BY <2>1, <2>3, <2>4, <2>6 DEF Earns
  <2>8. n * TickTime \in 0 .. elapsed
    <3>1. n \in Nat /\ n * TickTime \in Nat
      BY <2>4, EnginesAssumption
    <3> QED BY <2>3, <3>1
  <2> QED BY <2>7, <2>8
<1> QED BY <1>2, <1>3
=============================================================================
