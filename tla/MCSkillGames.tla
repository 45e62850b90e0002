---------------------------- MODULE MCSkillGames ----------------------------
(* A small instance of SkillGames for TLC. The course of s1 has obstacles at *)
(* ticks 1 and 2 (and a low byte at tick 0, which never counts), that of s2  *)
(* at tick 2. The rack of s1 needs a consonant repaired to become <<a, c, t>>;*)
(* that of s2 has one vowel already.                                         *)
EXTENDS SkillGames, TLC

CONSTANTS s1, s2, u1, u2

MCLowBytes == [s \in SkillSessions |-> IF s = s1 THEN {0, 1, 2} ELSE {2}]
MCRawLetters ==
  [s \in SkillSessions |-> IF s = s1 THEN <<"c", "c", "t">> ELSE <<"a", "c", "t">>]
MCRawVowels == [s \in SkillSessions |-> <<"a", "a", "a">>]
MCDictionary == {<<"a", "t">>, <<"a", "c", "t">>, <<"t", "a", "t">>, <<"c", "a">>}
MCOpening == [u \in Users |-> IF u = u1 THEN 1 ELSE 0]
Jumps(seq) == [field |-> "jumps", value |-> seq]
Words(seq) == [field |-> "words", value |-> seq]
Body(u, s, token, submission) ==
  [user |-> u, sess |-> s, token |-> token, submission |-> submission]
MCStarts == {[sess |-> s1, user |-> u1, game |-> "endless_runner"],
             [sess |-> s2, user |-> u1, game |-> "endless_runner"],
             [sess |-> s2, user |-> u1, game |-> "anagram"]}
\* runs without a jump, a good list of words (one twice, one that cannot
\* be spelt); a stranger, and the token of another session
MCBodies ==
  {Body(u1, s1, s1, Jumps(<<>>)), Body(u1, s2, s2, Jumps(<<>>)),
   Body(u1, s2, s2, Words(<<<<"a", "t">>, <<"a", "c", "t">>, <<"a", "t">>, <<"t", "a", "t">>>>)),
   Body(u2, s2, s2, Jumps(<<>>)), Body(u1, s2, s1, Jumps(<<>>))}
MCAdminChanges == {<<u1, "SUSPENDED">>}
MCSymmetry == Permutations(Reqs)

---------------------------------------------------------------------------
(* The engines' loops and counters against their reference definitions, over *)
(* every course, log of jumps, rack and word of small sizes.                 *)

Ticks == 0 .. CourseLength - 1
Letters == {"a", "c", "t"}
\* simulateRun is the first obstacle that was not jumped
ASSUME ReplayIsFirstCrash ==
  \A course, jumped \in SUBSET Ticks :
    LET score == simulateRun(course, jumped) IN
    /\ score \in 0 .. CourseLength
    /\ \A t \in Ticks : t < score => t \notin course \/ t \in jumped
    /\ score < CourseLength => score \in course /\ score \notin jumped
\* every derived rack is playable, keeps its vowels, and changes no more
\* letters than it must
ASSUME RacksArePlayable ==
  \A raw \in [1 .. 3 -> Letters], vowel \in [1 .. 3 -> Vowels] :
    LET rack == deriveLetters(raw, vowel)
        vowelsOf(letters) == {i \in 1 .. 3 : letters[i] \in Vowels}
    IN /\ Cardinality(vowelsOf(rack)) >= MinVowels
       /\ vowelsOf(raw) \subseteq vowelsOf(rack)
       /\ rack # raw => Cardinality(vowelsOf(rack)) = MinVowels
\* counting letters decides whether the word can be laid out in tiles
ASSUME CountingIsSpelling ==
  \A rack \in [1 .. 3 -> Letters] : \A n \in 0 .. 4 : \A word \in [1 .. n -> Letters] :
    isBuildableFromRack(word, rack) <=> Spelt(word, rack)
=============================================================================
