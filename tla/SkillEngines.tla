---------------------------- MODULE SkillEngines ----------------------------
(* The two skill engines: what a session's seed draws, how a submission is   *)
(* replayed against it, and the outcome [valid, score, reward]. Both are     *)
(* pure. A hash of the session is a constant: the draws a session got.       *)
EXTENDS Integers, Sequences, FiniteSets, FiniteSetsExt

CONSTANTS SkillSessions,
          \* endless_runner
          CourseLength,     \* COURSE_LENGTH, in ticks
          TickTime,         \* TICK_MS
          LowBytes,         \* [SkillSessions -> ticks whose hash byte is below the threshold]
          TicksPerPoint,    \* SCORE_PER_REWARD_POINT
          \* anagram
          Vowels,           \* VOWELS
          RawLetters,       \* [SkillSessions -> the letters drawn, LETTER_COUNT of them]
          RawVowels,        \* [SkillSessions -> the vowel drawn for each position]
          Dictionary,       \* words, each a sequence of letters
          MinVowels, MinWordLength, MaxWords,
          WordTime,         \* MIN_MS_PER_WORD
          LettersPerPoint   \* SCORE_PER_REWARD_POINT

ASSUME EnginesAssumption ==
  /\ CourseLength \in Nat \ {0} /\ TickTime \in Nat
  /\ LowBytes \in [SkillSessions -> SUBSET (0 .. CourseLength - 1)]
  /\ TicksPerPoint \in Nat \ {0} /\ LettersPerPoint \in Nat \ {0}
  /\ MinVowels \in Nat /\ MinWordLength \in Nat \ {0}
  /\ MaxWords \in Nat /\ WordTime \in Nat
  /\ IsFiniteSet(Dictionary) /\ \A w \in Dictionary : IsFiniteSet(DOMAIN w)
  /\ \A s \in SkillSessions :
       /\ IsFiniteSet(DOMAIN RawLetters[s])
       /\ Len(RawVowels[s]) = Len(RawLetters[s])
       /\ \A i \in DOMAIN RawVowels[s] : RawVowels[s][i] \in Vowels

SkillGameKeys == {"endless_runner", "anagram"}
Rejected == [valid |-> FALSE, score |-> 0, reward |-> 0]
Accepted(score, perPoint) ==
  [valid |-> TRUE, score |-> score, reward |-> score \div perPoint]

---------------------------------------------------------------------------
(* endless_runner: the jumps are replayed tick by tick.                     *)

\* ticks with an obstacle; tick 0 never has one
deriveCourse(s) == LowBytes[s] \ {0}

isValidJumpsInput(jumps) ==
  /\ Len(jumps) <= CourseLength
  /\ \A i \in DOMAIN jumps : jumps[i] \in 0 .. CourseLength - 1

\* the first tick whose obstacle was not jumped, or the end of the course
simulateRun(course, jumped) ==
  LET from[t \in 0 .. CourseLength] ==
        IF t = CourseLength \/ (t \in course /\ t \notin jumped) THEN t
        ELSE from[t + 1]
  IN from[0]

\* slip: the time a run takes is not compared with the clock
ValidateRunUntimed(s, submission, elapsed) ==
  IF submission.field # "jumps" \/ ~isValidJumpsInput(submission.value) THEN Rejected
  ELSE Accepted(simulateRun(deriveCourse(s),
         {submission.value[i] : i \in DOMAIN submission.value}), TicksPerPoint)
ValidateRun(s, submission, elapsed) ==
  IF submission.field # "jumps" \/ ~isValidJumpsInput(submission.value) THEN Rejected
  ELSE LET jumped == {submission.value[i] : i \in DOMAIN submission.value}
           score == simulateRun(deriveCourse(s), jumped)
       IN IF score * TickTime > elapsed THEN Rejected
          ELSE Accepted(score, TicksPerPoint)

---------------------------------------------------------------------------
(* anagram: every word is looked up and spelt from the rack.                *)

\* Consonants become vowels, left to right, until the rack has MinVowels.
deriveLetters(raw, vowel) ==
  LET before(i) == Cardinality({j \in 1 .. i - 1 : raw[j] \notin Vowels})
      drawn == Cardinality({j \in DOMAIN raw : raw[j] \in Vowels})
  IN [i \in DOMAIN raw |->
        IF raw[i] \notin Vowels /\ drawn + before(i) < MinVowels THEN vowel[i]
        ELSE raw[i]]
Rack(s) == deriveLetters(RawLetters[s], RawVowels[s])

CountOf(letter, letters) == Cardinality({i \in DOMAIN letters : letters[i] = letter})
\* no letter is used more often than the rack has it
isBuildableFromRack(word, rack) ==
  \A i \in DOMAIN word : CountOf(word[i], word) <= CountOf(word[i], rack)

\* the submitted words that count, each once
CountingWords(words, rack) ==
  {w \in {words[i] : i \in DOMAIN words} :
     /\ Len(w) >= MinWordLength
     /\ w \in Dictionary
     /\ isBuildableFromRack(w, rack)}
TotalLength(words) == MapThenSumSet(Len, words)

ValidateWords(s, submission, elapsed) ==
  IF submission.field # "words" \/ Len(submission.value) > MaxWords THEN Rejected
  ELSE LET counting == CountingWords(submission.value, Rack(s)) IN
       IF Cardinality(counting) * WordTime > elapsed THEN Rejected
       ELSE Accepted(TotalLength(counting), LettersPerPoint)

validate(game, s, submission, elapsed) ==
  IF game = "anagram" THEN ValidateWords(s, submission, elapsed)
  ELSE ValidateRun(s, submission, elapsed)

---------------------------------------------------------------------------
(* What the scores mean, without the engines' loops and counters.           *)

\* a runner who jumps at these ticks clears everything before tick n, and
\* falls at n unless the course ends there
Survives(s, jumps, n) ==
  LET hit(t) == t # 0 /\ t \in LowBytes[s] /\ \A i \in DOMAIN jumps : jumps[i] # t
  IN /\ n \in 0 .. CourseLength
     /\ \A t \in 0 .. n - 1 : ~hit(t)
     /\ n < CourseLength => hit(n)

\* a word is laid out with tiles of the rack, no tile taken twice
Spelt(word, rack) ==
  \E tile \in [DOMAIN word -> DOMAIN rack] :
    /\ \A i, j \in DOMAIN word : tile[i] = tile[j] => i = j
    /\ \A i \in DOMAIN word : rack[tile[i]] = word[i]

\* the score of a submission and the time it takes at least
Earns(game, s, submission, score, time) ==
  \/ /\ game = "endless_runner" /\ submission.field = "jumps"
     /\ Survives(s, submission.value, score)
     /\ time = score * TickTime
  \/ /\ game = "anagram" /\ submission.field = "words"
     /\ LET found == {w \in Dictionary :
                        /\ Len(w) >= MinWordLength
                        /\ \E i \in DOMAIN submission.value : submission.value[i] = w
                        /\ Spelt(w, Rack(s))}
        IN score = TotalLength(found) /\ time = Cardinality(found) * WordTime
=============================================================================
