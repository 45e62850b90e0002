-------------------------- MODULE GameEnginesProofs --------------------------
(* Theorems about the engines for every size of board, every secret and every *)
(* play: types, no stuck game, no payout to somebody who did not survive, the *)
(* odds of every multiplier, the house edge, and the size of the payouts.     *)
EXTENDS GameEngines, FiniteSums

\* What a ladder has been through, and what a one-shot game was decided by.
Survived ==
  /\ game \in Trapped => secret # {} /\ passed \cap secret = {}
  /\ game = "russian_roulette" => passed = 0 .. Cardinality(passed) - 1
  /\ game = "minesweeper" /\ outcome = "IN_PROGRESS" =>
       (0 .. size - 1) \ (passed \cup secret) # {}
  /\ game = "hi_lo" => secret \in [card : Ranks, left : [Ranks -> 0 .. Copies]]
  /\ game = "hi_lo" /\ outcome = "IN_PROGRESS" => CardsLeft # {}
  /\ game = "crash" => bps < secret \/ bps = BPS_SCALE
  /\ game \in OneShot /\ outcome \in {"WON", "DROPPED"} =>
       /\ bps > 0
       /\ \E choice : passed = {choice} /\ bps = Prize(game, size, choice, secret)
Inv == TypeOK /\ Survived

\* how a round of a game may stand, and what its player was told of it
Told ==
  \/ outcome = "IN_PROGRESS" /\ status = "CONTINUE"
  \/ outcome = "CASHED_OUT" /\ status = "WIN" /\ game \notin OneShot
  \/ outcome = "DEAD" /\ status = "LOSE" /\ game \in Trapped
  \/ outcome = "CRASHED" /\ status = "LOSE" /\ game = "crash"
  \/ outcome = "LOST" /\ status = "LOSE" /\ game \in (OneShot \ {"plinko"}) \cup {"hi_lo"}
  \/ outcome = "WON" /\ status = "WIN" /\ game \in OneShot \ {"plinko"}
  \/ outcome = "DROPPED" /\ status = "WIN" /\ game = "plinko"

---------------------------------------------------------------------------
(* Arithmetic of the boards.                                                *)

LEMMA Sizes ==
  ASSUME NEW g \in Games, NEW n \in SizesOf(g)
  PROVE  /\ n \in Nat \ {0}
         /\ g \in Trapped => n > 1
         /\ g = "penalty_shootout" => n > 1
         /\ g = "coin_flip" => n = 2
         /\ g = "shell_game" => n = 3
         /\ g = "dice_tower" => n = 6
         /\ g = "plinko" => n = 8
<1>1. g \in AllGames
  BY ParametersAssumption
<1>2. /\ Chambers \subseteq 2 .. 20 /\ Tiles \subseteq 2 .. 100
      /\ KeyCounts \subseteq 2 .. 10 /\ Racers \subseteq 2 .. 12 /\ Zones \subseteq 2 .. 6
  BY ParametersAssumption DEF KeyCounts, Racers, Zones
<1>3. CASE g \in Trapped
  BY <1>2, <1>3 DEF SizesOf, Trapped
<1>4. CASE g \in {"vault", "derby", "penalty_shootout"}
  BY <1>2, <1>4 DEF SizesOf, Trapped
<1>5. CASE g \in {"shell_game", "coin_flip", "dice_tower", "plinko", "hi_lo", "crash"}
  BY <1>5 DEF SizesOf, Trapped
<1> QED BY <1>1, <1>3, <1>4, <1>5 DEF AllGames, OneShot, OneOfN, Trapped

\* a grown multiplier is a number of basis points
LEMMA Grows ==
  ASSUME NEW b \in Nat, NEW n \in Nat, NEW d \in Nat \ {0}
  PROVE  (b * n) \div d \in Nat
<1>1. b * n \in Nat
  OBVIOUS
<1>2. PICK m \in Nat : m = b * n
  BY <1>1
<1> QED BY <1>2

\* the tiles from 0 to n-1, some of them taken away
LEMMA BoardPart ==
  ASSUME NEW n \in Nat, NEW S \in SUBSET (0 .. n - 1)
  PROVE  /\ IsFiniteSet(S) /\ Cardinality(S) \in 0 .. n
         /\ Cardinality(S) = n => S = 0 .. n - 1
<1>1. IsFiniteSet(0 .. n - 1) /\ Cardinality(0 .. n - 1) = n
  BY FS_Interval
<1>2. IsFiniteSet(S) /\ Cardinality(S) <= n /\ (Cardinality(S) = n => S = 0 .. n - 1)
  BY <1>1, FS_Subset
<1> QED BY <1>2, FS_CardinalityType

LEMMA TwoParts ==
  ASSUME NEW n \in Nat, NEW S \in SUBSET (0 .. n - 1), NEW T \in SUBSET (0 .. n - 1),
         S \cap T = {}
  PROVE  /\ Cardinality(S) + Cardinality(T) \in 0 .. n
         /\ Cardinality(S) + Cardinality(T) = n <=> (0 .. n - 1) \ (S \cup T) = {}
<1>1. IsFiniteSet(S) /\ IsFiniteSet(T) /\ Cardinality(S) \in Nat /\ Cardinality(T) \in Nat
  BY BoardPart
<1>2. Cardinality(S \cup T) = Cardinality(S) + Cardinality(T)
  <2>1. Cardinality(S \cap T) = 0
    BY FS_EmptySet
  <2>2. Cardinality(S \cup T) = Cardinality(S) + Cardinality(T) - Cardinality(S \cap T)
    BY <1>1, FS_Union
  <2> QED BY <1>1, <2>1, <2>2
<1>3. S \cup T \in SUBSET (0 .. n - 1)
  OBVIOUS
<1>4. Cardinality(0 .. n - 1) = n
  BY FS_Interval
<1>5. Cardinality(S \cup T) \in 0 .. n
      /\ (Cardinality(S \cup T) = n => S \cup T = 0 .. n - 1)
  BY <1>3, BoardPart
<1>6. S \cup T = 0 .. n - 1 <=> (0 .. n - 1) \ (S \cup T) = {}
  BY <1>3
<1> QED BY <1>2, <1>4, <1>5, <1>6

\* a choice is worth a number of basis points
LEMMA PrizeType ==
  ASSUME NEW g \in OneShot \cap Games, NEW n \in SizesOf(g), NEW choice \in Offers(g, n),
         NEW draw \in Draws(g, n, 0)
  PROVE  Prize(g, n, choice, draw) \in Nat /\ (g = "plinko" => Prize(g, n, choice, draw) > 0)
<1>1. CASE g = "penalty_shootout"
  <2>1. n \in Nat /\ n - 1 \in Nat \ {0}
    BY <1>1, Sizes
  <2>2. (n * BPS_SCALE) \div (n - 1) \in Nat
    BY <2>1, Grows DEF BPS_SCALE
  <2> QED BY <1>1, <2>2 DEF Prize, Goal
<1>2. CASE g \in OneOfN \ {"penalty_shootout"}
  <2>1. n * BPS_SCALE \in Nat
    BY Sizes DEF BPS_SCALE
  <2>2. Prize(g, n, choice, draw) = RightOne(n, choice, draw) /\ g # "plinko"
    BY <1>2 DEF Prize, OneOfN
  <2> QED BY <2>1, <2>2 DEF RightOne
<1>3. CASE g = "dice_tower"
  BY <1>3 DEF Prize, DicePrize, OneOfN
<1>4. CASE g = "plinko"
  <2>1. n = 8
    BY <1>4, Sizes
  <2>2. draw \in SUBSET (0 .. n - 1)
    BY <1>4 DEF Draws, Trapped, OneOfN
  <2>3. Cardinality(draw) \in 0 .. 8
    BY <2>1, <2>2, BoardPart
  <2>4. Prize(g, n, choice, draw) = SLOT_MULTIPLIERS_BPS[Cardinality(draw) + 1]
    BY <1>4 DEF Prize, OneOfN
  <2>5. \A i \in 1 .. 9 : SLOT_MULTIPLIERS_BPS[i] \in Nat /\ SLOT_MULTIPLIERS_BPS[i] > 0
    BY DEF SLOT_MULTIPLIERS_BPS
  <2> QED BY <2>3, <2>4, <2>5
<1> QED BY <1>1, <1>2, <1>3, <1>4 DEF OneShot

---------------------------------------------------------------------------
LEMMA InitInv == Init => Inv
<1> SUFFICES ASSUME Init PROVE Inv
  OBVIOUS
<1>1. /\ game \in Games /\ game \in AllGames /\ size \in SizesOf(game)
      /\ passed = {} /\ bps = BPS_SCALE /\ outcome = "IN_PROGRESS" /\ status = "CONTINUE"
  BY ParametersAssumption DEF Init
<1>2. size \in Nat \ {0} /\ (game \in Trapped => size > 1)
  BY <1>1, Sizes
<1>3. ASSUME game \in Trapped
      PROVE  /\ secret \subseteq 0 .. size - 1 /\ secret # {}
             /\ (0 .. size - 1) \ secret # {}
  <2>1. PICK k \in 1 .. size - 1 : secret \in SUBSET (0 .. size - 1) /\ Cardinality(secret) = k
    BY <1>3 DEF Init, Layouts, Trapped, OneShot, OneOfN, DrawnLate
  <2>2. secret # {}
    BY <2>1, FS_EmptySet
  <2>3. Cardinality(0 .. size - 1) = size
    BY <1>2, FS_Interval
  <2>4. secret # 0 .. size - 1
    BY <1>2, <2>1, <2>3
  <2> QED BY <2>1, <2>2, <2>4
<1>4. ASSUME game = "hi_lo"
      PROVE  secret \in [card : Ranks, left : [Ranks -> 0 .. Copies]] /\ CardsLeft # {}
  <2>1. PICK v \in Ranks : secret = [card |-> v, left |-> Without(NewDeck, v)]
    BY <1>4 DEF Init, Trapped, OneShot, OneOfN, DrawnLate
  <2>2. Copies \in Nat \ {0} /\ IsFiniteSet(Ranks) /\ Cardinality(Ranks) > 1
    BY ParametersAssumption
  <2>3. Without(NewDeck, v) \in [Ranks -> 0 .. Copies]
    BY <2>2 DEF Without, NewDeck
  <2>4. PICK w \in Ranks : w # v
    <3>1. Ranks # {v}
      BY <2>2, FS_Singleton
    <3> QED BY <3>1
  <2>5. Without(NewDeck, v)[w] = Copies
    BY <2>4 DEF Without, NewDeck
  <2>6. w \in CardsLeft
    BY <2>1, <2>2, <2>5 DEF CardsLeft
  <2> QED BY <2>1, <2>3, <2>6
<1>5. game = "crash" => secret \in CrashPoints
  BY DEF Init, Trapped, OneShot, OneOfN, DrawnLate
<1>6. game \in OneShot => IF game \in DrawnLate THEN secret = "not drawn"
                          ELSE secret \in Draws(game, size, 0)
  BY DEF Init, Trapped, OneShot, OneOfN, DrawnLate
<1>7. TypeOK
  <2>1. game \in Trapped => secret \subseteq 0 .. size - 1 /\ passed \subseteq 0 .. size - 1
    BY <1>1, <1>3
  <2>2. game \in OneShot => IF game \in DrawnLate /\ passed = {} THEN secret = "not drawn"
                            ELSE secret \in Draws(game, size, 0)
    BY <1>1, <1>6
  <2>3. game = "hi_lo" => secret.card \in Ranks /\ secret.left \in [Ranks -> 0 .. Copies]
    BY <1>4
  <2>4. bps \in Nat /\ outcome \in Outcomes /\ passed \subseteq Offers(game, size)
    BY <1>1 DEF BPS_SCALE, Outcomes
  <2> QED BY <1>1, <1>5, <2>1, <2>2, <2>3, <2>4 DEF TypeOK
<1>8. game = "russian_roulette" => passed = 0 .. Cardinality(passed) - 1
  BY <1>1, FS_EmptySet
<1>9. Survived
  BY <1>1, <1>3, <1>4, <1>8 DEF Survived, Trapped
<1> QED BY <1>7, <1>9 DEF Inv

LEMMA CashOutKeeps == Inv /\ CashOut => Inv'
<1> SUFFICES ASSUME Inv, CashOut PROVE Inv'
  OBVIOUS
<1>1. /\ game' = game /\ size' = size /\ secret' = secret /\ passed' = passed
      /\ bps' = bps /\ outcome' = "CASHED_OUT" /\ status' = "WIN"
  BY DEF CashOut, Ends, Keep
<1>2. TypeOK'
  BY <1>1 DEF Inv, TypeOK, Outcomes
<1>3. Survived'
  BY <1>1 DEF Inv, Survived
<1> QED BY <1>2, <1>3 DEF Inv

LEMMA PullKeeps == Inv /\ Pull => Inv'
<1> SUFFICES ASSUME Inv, Pull PROVE Inv'
  OBVIOUS
<1>1. /\ game = "russian_roulette" /\ game' = game /\ size' = size /\ secret' = secret
      /\ game \in Games /\ size \in SizesOf(game) /\ bps \in Nat
      /\ secret \in SUBSET (0 .. size - 1) /\ passed \in SUBSET (0 .. size - 1)
      /\ secret # {} /\ passed \cap secret = {}
  BY DEF Pull, Open, Keep, Inv, TypeOK, Survived, Trapped
<1>2. size \in Nat \ {0}
  BY <1>1, Sizes
<1>3. PICK pos \in 0 .. size : pos = Cardinality(passed)
  BY <1>1, <1>2, BoardPart
<1>4. passed = 0 .. pos - 1 /\ pos < size
  BY <1>1, <1>3 DEF Pull, Inv, Survived
<1>5. CASE pos \in secret
  <2>1. passed' = passed /\ bps' = bps /\ outcome' = "DEAD" /\ status' = "LOSE"
    BY <1>3, <1>5 DEF Pull, Ends
  <2>2. TypeOK'
    BY <1>1, <2>1 DEF Inv, TypeOK, Outcomes, Trapped, OneShot, OneOfN
  <2>3. Survived'
    BY <1>1, <2>1 DEF Inv, Survived, Trapped, OneShot, OneOfN
  <2> QED BY <2>2, <2>3 DEF Inv
<1>6. CASE pos \notin secret
  <2>1. /\ passed' = passed \cup {pos}
        /\ bps' = (bps * (size - pos)) \div SafeRemaining(pos)
        /\ outcome' \in {"CASHED_OUT", "IN_PROGRESS"} /\ status' \in {"WIN", "CONTINUE"}
    BY <1>3, <1>6 DEF Pull, Survives, Ends
  <2>2. passed' = 0 .. pos /\ passed' \subseteq 0 .. size - 1 /\ passed' \cap secret = {}
    BY <1>1, <1>2, <1>4, <1>6, <2>1
  <2>3. passed' = 0 .. Cardinality(passed') - 1
    <3>1. Cardinality(0 .. pos) = pos + 1
      BY FS_Interval
    <3>2. Cardinality(passed') = pos + 1
      BY <2>2, <3>1
    <3>3. (pos + 1) - 1 = pos
      BY <1>3, <1>2
    <3> QED BY <2>2, <3>2, <3>3
  <2>4. SafeRemaining(pos) \in Nat \ {0}
    <3> DEFINE ahead == {i \in secret : i >= pos}
    <3>1. ahead \in SUBSET (pos + 1 .. size - 1)
      <4>1. ASSUME NEW i \in secret, i >= pos PROVE i \in pos + 1 .. size - 1
        <5>1. i \in 0 .. size - 1 /\ i # pos
          BY <1>1, <1>6, <4>1
        <5> QED BY <1>2, <1>3, <4>1, <5>1
      <4> QED BY <4>1
    <3>2. IsFiniteSet(pos + 1 .. size - 1) /\ Cardinality(pos + 1 .. size - 1) = size - 1 - pos
      <4>1. PICK a \in Int, b \in Int : a = pos + 1 /\ b = size - 1 /\ a <= b + 1
        BY <1>2, <1>4
      <4>2. IsFiniteSet(a .. b) /\ Cardinality(a .. b) = IF a > b THEN 0 ELSE b - a + 1
        BY FS_Interval
      <4>3. (IF a > b THEN 0 ELSE b - a + 1) = size - 1 - pos
        BY <1>2, <1>4, <4>1
      <4> QED BY <4>1, <4>2, <4>3
    <3>3. Cardinality(ahead) \in Nat /\ Cardinality(ahead) <= size - 1 - pos
      <4> HIDE DEF ahead
      <4>1. IsFiniteSet(ahead) /\ Cardinality(ahead) <= Cardinality(pos + 1 .. size - 1)
        BY <3>1, <3>2, FS_Subset
      <4>2. Cardinality(ahead) \in Nat
        BY <4>1, FS_CardinalityType
      <4> QED BY <3>2, <4>1, <4>2
    <3> QED BY <1>2, <3>3 DEF SafeRemaining
  <2>5. bps' \in Nat
    <3>1. size - pos \in Nat
      BY <1>2, <1>4
    <3> QED BY <1>1, <2>1, <2>4, <3>1, Grows
  <2>6. TypeOK'
    BY <1>1, <2>1, <2>2, <2>5 DEF TypeOK, Outcomes, Trapped, OneShot, OneOfN
  <2>7. Survived'
    BY <1>1, <2>2, <2>3 DEF Survived, Trapped, OneShot, OneOfN
  <2> QED BY <2>6, <2>7 DEF Inv
<1> QED BY <1>5, <1>6

LEMMA RevealKeeps == Inv /\ Reveal => Inv'
<1> SUFFICES ASSUME Inv, Reveal PROVE Inv'
  OBVIOUS
<1>1. /\ game = "minesweeper" /\ game' = game /\ size' = size /\ secret' = secret
      /\ outcome = "IN_PROGRESS"
      /\ game \in Games /\ size \in SizesOf(game) /\ bps \in Nat
      /\ secret \in SUBSET (0 .. size - 1) /\ passed \in SUBSET (0 .. size - 1)
      /\ secret # {} /\ passed \cap secret = {}
      /\ (0 .. size - 1) \ (passed \cup secret) # {}
  BY DEF Reveal, Open, Keep, Inv, TypeOK, Survived, Trapped
<1>2. size \in Nat \ {0}
  BY <1>1, Sizes
<1>3. PICK tile \in (0 .. size - 1) \ passed :
        IF tile \in secret
        THEN Ends("DEAD", "LOSE") /\ UNCHANGED <<passed, bps>>
        ELSE /\ passed' = passed \cup {tile}
             /\ bps' = (bps * (size - Cardinality(passed)))
                         \div ((size - Cardinality(passed)) - Cardinality(secret))
             /\ Survives(AllSafeFound(passed'))
  BY DEF Reveal
<1>4. CASE tile \in secret
  <2>1. passed' = passed /\ bps' = bps /\ outcome' = "DEAD" /\ status' = "LOSE"
    BY <1>3, <1>4 DEF Ends
  <2>2. TypeOK'
    BY <1>1, <2>1 DEF Inv, TypeOK, Outcomes, Trapped, OneShot, OneOfN
  <2>3. Survived'
    BY <1>1, <2>1 DEF Inv, Survived, Trapped, OneShot, OneOfN
  <2> QED BY <2>2, <2>3 DEF Inv
<1>5. CASE tile \notin secret
  <2>1. PICK p \in Nat, q \in Nat : p = Cardinality(passed) /\ q = Cardinality(secret)
    BY <1>1, <1>2, BoardPart
  <2>2. passed' = passed \cup {tile} /\ bps' = (bps * (size - p)) \div ((size - p) - q)
    BY <1>3, <1>5, <2>1
  <2>3. p + q < size
    BY <1>1, <1>2, <2>1, TwoParts
  <2>4. bps' \in Nat
    <3>1. size - p \in Nat /\ (size - p) - q \in Nat \ {0}
      BY <1>2, <2>3
    <3> QED BY <1>1, <2>2, <3>1, Grows
  <2>5. passed' \in SUBSET (0 .. size - 1) /\ passed' \cap secret = {}
    BY <1>1, <1>5, <2>2
  <2>6. /\ outcome' = IF AllSafeFound(passed') THEN "CASHED_OUT" ELSE "IN_PROGRESS"
        /\ status' \in {"WIN", "CONTINUE"}
    BY <1>3, <1>5 DEF Survives, Ends
  <2>7. outcome' = "IN_PROGRESS" => (0 .. size - 1) \ (passed' \cup secret) # {}
    <3>1. SUFFICES ASSUME outcome' = "IN_PROGRESS" PROVE (0 .. size - 1) \ (passed' \cup secret) # {}
      OBVIOUS
    <3>2. Cardinality(passed') # size - Cardinality(secret)
      BY <2>6, <3>1 DEF AllSafeFound
    <3>3. PICK S \in SUBSET (0 .. size - 1) : S = passed'
      BY <2>5
    <3>4. Cardinality(S) \in Nat
      <4>1. size \in Nat
        BY <1>2
      <4>2. Cardinality(S) \in 0 .. size
        BY <3>3, <4>1, BoardPart
      <4> QED BY <4>1, <4>2
    <3>5. Cardinality(S) + Cardinality(secret) # size
      BY <1>2, <2>1, <3>2, <3>3, <3>4
    <3> QED BY <1>1, <1>2, <2>5, <3>3, <3>5, TwoParts
  <2>8. TypeOK'
    BY <1>1, <2>4, <2>5, <2>6 DEF TypeOK, Outcomes, Trapped, OneShot, OneOfN
  <2>9. Survived'
    BY <1>1, <2>5, <2>7 DEF Survived, Trapped, OneShot, OneOfN
  <2> QED BY <2>8, <2>9 DEF Inv
<1> QED BY <1>4, <1>5

LEMMA GuessKeeps == Inv /\ Guess => Inv'
<1> SUFFICES ASSUME Inv, Guess PROVE Inv'
  OBVIOUS
<1>1. /\ game = "hi_lo" /\ game' = game /\ size' = size /\ passed' = passed
      /\ game \in Games /\ size \in SizesOf(game) /\ bps \in Nat
      /\ secret \in [card : Ranks, left : [Ranks -> 0 .. Copies]]
  BY DEF Guess, Open, Inv, TypeOK, Survived
<1>2. PICK direction \in {"higher", "lower"}, card \in CardsLeft :
        \E left : /\ left = Without(secret.left, card)
                  /\ \/ /\ Ends("LOST", "LOSE")
                        /\ secret' = [secret EXCEPT !.left = left]
                        /\ UNCHANGED bps
                     \/ /\ Favorable(direction, secret.card) # 0
                        /\ secret' = [card |-> card, left |-> left]
                        /\ bps' = (bps * Cardinality(Ranks)) \div Favorable(direction, secret.card)
                        /\ Survives(\A v \in Ranks : left[v] = 0)
  BY DEF Guess
<1>3. PICK left : /\ left = Without(secret.left, card)
                  /\ \/ /\ Ends("LOST", "LOSE")
                        /\ secret' = [secret EXCEPT !.left = left]
                        /\ UNCHANGED bps
                     \/ /\ Favorable(direction, secret.card) # 0
                        /\ secret' = [card |-> card, left |-> left]
                        /\ bps' = (bps * Cardinality(Ranks)) \div Favorable(direction, secret.card)
                        /\ Survives(\A v \in Ranks : left[v] = 0)
  BY <1>2
<1>4. /\ Copies \in Nat \ {0} /\ IsFiniteSet(Ranks) /\ Cardinality(Ranks) \in Nat
      /\ card \in Ranks /\ secret.left[card] > 0
  BY ParametersAssumption, FS_CardinalityType DEF CardsLeft
<1>5. left \in [Ranks -> 0 .. Copies]
  BY <1>1, <1>3, <1>4 DEF Without
<1>6. CASE /\ Ends("LOST", "LOSE")
           /\ secret' = [secret EXCEPT !.left = left]
           /\ UNCHANGED bps
  <2>1. secret' \in [card : Ranks, left : [Ranks -> 0 .. Copies]]
    BY <1>1, <1>5, <1>6
  <2>2. outcome' = "LOST" /\ status' = "LOSE" /\ bps' \in Nat
    BY <1>1, <1>6 DEF Ends
  <2>3. TypeOK'
    BY <1>1, <2>1, <2>2 DEF TypeOK, Outcomes, Trapped, OneShot, OneOfN
  <2>4. Survived'
    BY <1>1, <2>1, <2>2 DEF Survived, Trapped, OneShot, OneOfN
  <2> QED BY <2>3, <2>4 DEF Inv
<1>7. CASE /\ Favorable(direction, secret.card) # 0
           /\ secret' = [card |-> card, left |-> left]
           /\ bps' = (bps * Cardinality(Ranks)) \div Favorable(direction, secret.card)
           /\ Survives(\A v \in Ranks : left[v] = 0)
  <2>1. secret' \in [card : Ranks, left : [Ranks -> 0 .. Copies]] /\ secret'.left = left
    BY <1>4, <1>5, <1>7
  <2>2. Favorable(direction, secret.card) \in Nat \ {0}
    <3> DEFINE side == {w \in Ranks : IF direction = "higher" THEN w > secret.card
                                      ELSE w < secret.card}
    <3>1. side \in SUBSET Ranks
      OBVIOUS
    <3>2. Cardinality(side) \in Nat
      <4> HIDE DEF side
      <4> QED BY <1>4, <3>1, FS_Subset, FS_CardinalityType
    <3> QED BY <1>7, <3>2 DEF Favorable
  <2>3. bps' \in Nat
    BY <1>1, <1>4, <1>7, <2>2, Grows
  <2>4. /\ outcome' = IF \A v \in Ranks : left[v] = 0 THEN "CASHED_OUT" ELSE "IN_PROGRESS"
        /\ status' \in {"WIN", "CONTINUE"}
    BY <1>7 DEF Survives, Ends
  <2>5. outcome' = "IN_PROGRESS" => CardsLeft' # {}
    BY <1>5, <2>1, <2>4 DEF CardsLeft
  <2>6. TypeOK'
    BY <1>1, <2>1, <2>3, <2>4 DEF TypeOK, Outcomes, Trapped, OneShot, OneOfN
  <2>7. Survived'
    BY <1>1, <2>1, <2>5 DEF Survived, Trapped, OneShot, OneOfN
  <2> QED BY <2>6, <2>7 DEF Inv
<1> QED BY <1>3, <1>6, <1>7

LEMMA TickKeeps == Inv /\ Tick => Inv'
<1> SUFFICES ASSUME Inv, Tick PROVE Inv'
  OBVIOUS
<1>1. /\ game = "crash" /\ game' = game /\ size' = size /\ passed' = passed /\ secret' = secret
      /\ game \in Games /\ size \in SizesOf(game) /\ bps \in Nat
      /\ secret \in CrashPoints /\ secret \in Nat
      /\ (bps < secret \/ bps = BPS_SCALE)
  <2>1. /\ game = "crash" /\ game' = game /\ size' = size /\ passed' = passed /\ secret' = secret
        /\ game \in Games /\ size \in SizesOf(game) /\ bps \in Nat
        /\ secret \in CrashPoints /\ (bps < secret \/ bps = BPS_SCALE)
    BY DEF Tick, Open, Keep, Inv, TypeOK, Survived
  <2>2. CrashPoints \subseteq BPS_SCALE .. MAX_CRASH_BPS
    BY ParametersAssumption
  <2>3. BPS_SCALE \in Nat /\ MAX_CRASH_BPS \in Nat
    BY DEF BPS_SCALE, MAX_CRASH_BPS
  <2>4. secret \in Nat
    <3>1. secret \in BPS_SCALE .. MAX_CRASH_BPS
      BY <2>1, <2>2
    <3> QED BY <2>3, <3>1
  <2> QED BY <2>1, <2>4
<1>2. PICK next \in Nat : next = (bps * 105) \div 100
  BY <1>1
<1>3. \/ bps' = bps /\ outcome' = "CRASHED" /\ status' = "LOSE"
      \/ next < secret /\ bps' = next /\ outcome' = "IN_PROGRESS" /\ status' = "CONTINUE"
  BY <1>1, <1>2 DEF Tick, Crashes, Ends
<1>4. /\ bps' \in Nat /\ (bps' < secret \/ bps' = BPS_SCALE)
      /\ outcome' \in Outcomes /\ status' \in {"CONTINUE", "WIN", "LOSE"}
  BY <1>1, <1>2, <1>3 DEF Inv, TypeOK, Outcomes
<1>5. TypeOK'
  BY <1>1, <1>4 DEF TypeOK, Trapped, OneShot, OneOfN
<1>6. Survived'
  BY <1>1, <1>4 DEF Survived, Trapped, OneShot, OneOfN
<1> QED BY <1>5, <1>6 DEF Inv

\* the one decision of a one-shot game
LEMMA DecideKeeps ==
  ASSUME Inv, game \in OneShot, NEW choice \in Offers(game, size),
         NEW draw \in Draws(game, size, 0), Decide(choice, draw),
         \/ game # "plinko" /\ WonOrLost
         \/ game = "plinko" /\ Ends("DROPPED", "WIN")
  PROVE  Inv'
<1>1. /\ passed' = {choice} /\ secret' = draw /\ bps' = Prize(game, size, choice, draw)
      /\ game' = game /\ size' = size /\ game \in Games /\ size \in SizesOf(game)
  BY DEF Decide, Inv, TypeOK
<1>2. bps' \in Nat /\ (game = "plinko" => bps' > 0)
  BY <1>1, PrizeType
<1>3. /\ outcome' \in {"WON", "LOST", "DROPPED"} /\ status' \in {"WIN", "LOSE"}
      /\ outcome' \in {"WON", "DROPPED"} => bps' > 0
  BY <1>2 DEF WonOrLost, Ends
<1>4. game \notin Trapped /\ game \notin {"crash", "hi_lo"}
  BY DEF Trapped, OneShot, OneOfN
<1>5. TypeOK'
  BY <1>1, <1>2, <1>3, <1>4 DEF TypeOK, Outcomes
<1>6. Survived'
  BY <1>1, <1>3, <1>4 DEF Survived, Trapped
<1> QED BY <1>5, <1>6 DEF Inv

LEMMA ChooseKeeps == Inv /\ Choose => Inv'
<1> SUFFICES ASSUME Inv, Choose PROVE Inv'
  OBVIOUS
<1>1. game \in Games /\ size \in SizesOf(game)
  BY DEF Inv, TypeOK
<1>2. CASE Flip
  <2>1. PICK side \in 0 .. 1, coin \in 0 .. 1 : Decide(side, coin)
    BY <1>2 DEF Flip
  <2>2. game = "coin_flip" /\ size = 2 /\ WonOrLost
    BY <1>1, <1>2, Sizes DEF Flip, Open
  <2>3. side \in Offers(game, size) /\ coin \in Draws(game, size, 0) /\ game \in OneShot
    BY <2>2 DEF Offers, Draws, OneOfN, OneShot, Trapped
  <2> QED BY <2>1, <2>2, <2>3, DecideKeeps
<1>3. CASE Roll
  <2>1. PICK prediction \in Offers(game, size), d1 \in 1 .. 6, d2 \in 1 .. 6 :
          Decide(prediction, <<d1, d2>>)
    BY <1>3 DEF Roll
  <2>2. game = "dice_tower" /\ size = 6 /\ WonOrLost
    BY <1>1, <1>3, Sizes DEF Roll, Open
  <2>3. <<d1, d2>> \in Draws(game, size, 0) /\ game \in OneShot
    BY <2>2 DEF Draws, OneOfN, OneShot, Trapped
  <2> QED BY <2>1, <2>2, <2>3, DecideKeeps
<1>4. ASSUME game \in {"shell_game", "vault", "derby", "penalty_shootout"}, WonOrLost,
             NEW choice \in 0 .. size - 1, Decide(choice, secret)
      PROVE  Inv'
  <2>1. choice \in Offers(game, size) /\ game \in OneShot /\ game # "plinko"
    BY <1>4 DEF Offers, OneOfN, OneShot
  <2>2. secret \in Draws(game, size, 0)
    BY <1>4, <2>1 DEF Inv, TypeOK, DrawnLate
  <2> QED BY <1>4, <2>1, <2>2, DecideKeeps
<1>5. CASE PickCup
  <2>1. game = "shell_game" /\ size = 3
    BY <1>1, <1>5, Sizes DEF PickCup, Open
  <2> QED BY <1>4, <1>5, <2>1 DEF PickCup
<1>6. CASE PickKey \/ BetOnRacer \/ Shoot
  BY <1>4, <1>6 DEF PickKey, BetOnRacer, Shoot, Open
<1>7. CASE Drop
  <2>1. PICK rights \in SUBSET (0 .. size - 1) : Decide("drop", rights)
    BY <1>7 DEF Drop
  <2>2. game = "plinko" /\ Ends("DROPPED", "WIN")
    BY <1>7 DEF Drop, Open
  <2>3. "drop" \in Offers(game, size) /\ rights \in Draws(game, size, 0) /\ game \in OneShot
    BY <2>2 DEF Offers, Draws, OneOfN, OneShot, Trapped
  <2> QED BY <2>1, <2>2, <2>3, DecideKeeps
<1> QED BY <1>2, <1>3, <1>5, <1>6, <1>7 DEF Choose

LEMMA NextInv == Inv /\ [Next]_vars => Inv'
<1>1. Inv /\ UNCHANGED vars => Inv'
  <2> SUFFICES ASSUME Inv, UNCHANGED vars PROVE Inv'
    OBVIOUS
  <2>1. TypeOK'
    BY DEF Inv, TypeOK, vars
  <2>2. Survived'
    BY DEF Inv, Survived, CardsLeft, vars
  <2> QED BY <2>1, <2>2 DEF Inv
<1> QED BY <1>1, CashOutKeeps, PullKeeps, RevealKeeps, GuessKeeps, TickKeeps, ChooseKeeps DEF Next

LEMMA InvHolds == Spec => []Inv
BY InitInv, NextInv, PTL DEF Spec

\* every move that ends a round leaves the outcome of its game, and says so
LEMMA ToldHolds == Spec => []Told
<1>1. Init => Told
  BY DEF Init, Told
<1>2. ASSUME Told, [Next]_vars PROVE Told'
  <2>1. CASE CashOut
    BY <2>1 DEF CashOut, Ends, Keep, Told
  <2>2. CASE Pull
    BY <2>2 DEF Pull, Open, Survives, Ends, Keep, Told, Trapped, OneShot, OneOfN
  <2>3. CASE Reveal
    BY <2>3 DEF Reveal, Open, Survives, Ends, Keep, Told, Trapped, OneShot, OneOfN
  <2>4. CASE Guess
    BY <2>4 DEF Guess, Open, Survives, Ends, Told, Trapped, OneShot, OneOfN
  <2>5. CASE Tick
    BY <2>5 DEF Tick, Open, Ends, Keep, Told
  <2>6. ASSUME game \in OneShot \ {"plinko"}, game' = game, WonOrLost PROVE Told'
    BY <2>6 DEF WonOrLost, Ends, Told
  <2>7. CASE Flip \/ Roll \/ PickCup
    BY <2>6, <2>7 DEF Flip, Roll, PickCup, Open, Decide, OneShot, OneOfN
  <2>8. CASE PickKey \/ BetOnRacer \/ Shoot
    BY <2>6, <2>8 DEF PickKey, BetOnRacer, Shoot, Open, Decide, OneShot, OneOfN
  <2>9. CASE Drop
    BY <2>9 DEF Drop, Open, Decide, Ends, Told
  <2>10. CASE UNCHANGED vars
    BY <1>2, <2>10 DEF vars, Told
  <2> QED BY <1>2, <2>1, <2>2, <2>3, <2>4, <2>5, <2>7, <2>8, <2>9, <2>10 DEF Next, Choose
<1> QED BY <1>1, <1>2, PTL DEF Spec

\* The metadata of every engine keeps its types: no multiplier is divided by
\* zero or becomes negative, on boards of any size.
THEOREM MetadataKeepsTypes == Spec => []TypeOK
<1>1. Inv => TypeOK
  BY DEF Inv
<1> QED BY <1>1, InvHolds, PTL

\* No game in progress is stuck, on boards of any size: roulette has a bullet
\* ahead, minesweeper a safe tile, hi_lo a card.
THEOREM NoGameIsStuck == Spec => []OpenGamesCanMove
<1>1. ASSUME Inv, outcome = "IN_PROGRESS", game = "russian_roulette"
      PROVE  \E i \in secret : i >= Cardinality(passed)
  <2>1. /\ secret \in SUBSET (0 .. size - 1) /\ passed \in SUBSET (0 .. size - 1)
        /\ secret # {} /\ passed \cap secret = {} /\ passed = 0 .. Cardinality(passed) - 1
        /\ game \in Games /\ size \in SizesOf(game)
    BY <1>1 DEF Inv, TypeOK, Survived, Trapped
  <2>2. size \in Nat
    BY <2>1, Sizes
  <2>3. PICK pos \in Nat : pos = Cardinality(passed)
    BY <2>1, <2>2, BoardPart
  <2>4. PICK i \in secret : i \notin 0 .. pos - 1
    BY <2>1, <2>3
  <2>5. i \in Nat /\ i >= pos
    BY <2>1, <2>2, <2>4
  <2> QED BY <2>3, <2>5
<1>2. Inv => OpenGamesCanMove
  BY <1>1 DEF Inv, Survived, OpenGamesCanMove
<1> QED BY <1>2, InvHolds, PTL

\* Whoever was told he lost is paid nothing and whoever was told he won is paid,
\* by whichever rule settle has for his game; and whoever is paid never touched a
\* loaded chamber, a mine or the crash point, and won a one-shot game on its draw.
THEOREM OnlySurvivorsArePaid == Spec => []PaysOnlySurvivors
<1>1. ASSUME Inv, NEW bet \in Stakes, Payout(bet) > 0
      PROVE  /\ game \in Trapped => passed \cap secret = {}
             /\ game = "crash" => bps < secret \/ bps = BPS_SCALE
             /\ game \in OneShot => passed # {} /\ bps = Worth(secret) /\ bps > 0
  <2>1. Payable
    BY <1>1 DEF Payout
  <2>2. ASSUME game \in OneShot PROVE passed # {} /\ bps = Worth(secret) /\ bps > 0
    <3>1. outcome \in {"WON", "DROPPED"}
      BY <2>1, <2>2 DEF Payable, Trapped, OneShot, OneOfN
    <3>2. PICK choice : passed = {choice} /\ bps = Prize(game, size, choice, secret) /\ bps > 0
      BY <1>1, <2>2, <3>1 DEF Inv, Survived
    <3>3. (CHOOSE c \in passed : TRUE) = choice
      BY <3>2
    <3>4. game \notin Trapped
      BY <2>2 DEF Trapped, OneShot, OneOfN
    <3> QED BY <3>2, <3>3, <3>4 DEF Worth
  <2> QED BY <1>1, <2>2 DEF Inv, Survived
<1>2. ASSUME Told, game \in AllGames
      PROVE  /\ status = "LOSE" => ~Payable
             /\ status = "WIN" => Payable
             /\ status = "CONTINUE" <=> outcome = "IN_PROGRESS"
  BY <1>2 DEF Told, Payable, AllGames, Trapped, OneShot, OneOfN
<1>3. Inv /\ Told => PaysOnlySurvivors
  <2> SUFFICES ASSUME Inv, Told PROVE PaysOnlySurvivors
    OBVIOUS
  <2>1. game \in AllGames
    BY ParametersAssumption DEF Inv, TypeOK
  <2>2. status = "LOSE" => \A bet \in Stakes : Payout(bet) = 0
    BY <1>2, <2>1 DEF Payout
  <2> QED BY <1>1, <1>2, <2>1, <2>2 DEF PaysOnlySurvivors
<1> QED BY <1>3, InvHolds, ToldHolds, PTL

---------------------------------------------------------------------------
(* Counting the boards: after a safe move, how many of the boards a session  *)
(* could have had are still possible.                                        *)

\* the boards of k traps that have none in P
Clear(n, k, P) == {S \in Layouts(n, k) : P \cap S = {}}
\* a board with its trap at a, if any, moved to b
Moved(S, a, b) == IF a \in S THEN (S \ {a}) \cup {b} ELSE S

LEMMA WholeBoard ==
  ASSUME NEW n \in Nat
  PROVE  IsFiniteSet(0 .. n - 1) /\ Cardinality(0 .. n - 1) = n
BY FS_Interval

\* finitely many boards, no more of them clear than there are
LEMMA Boards ==
  ASSUME NEW n \in Nat, NEW k
  PROVE  /\ IsFiniteSet(Layouts(n, k)) /\ Cardinality(Layouts(n, k)) \in Nat
         /\ \A P : /\ Clear(n, k, P) \subseteq Layouts(n, k)
                   /\ IsFiniteSet(Clear(n, k, P)) /\ Cardinality(Clear(n, k, P)) \in Nat
                   /\ Cardinality(Clear(n, k, P)) <= Cardinality(Layouts(n, k))
<1>1. IsFiniteSet(SUBSET (0 .. n - 1))
  <2>1. PICK D : D = 0 .. n - 1 /\ IsFiniteSet(D)
    BY WholeBoard
  <2> QED BY <2>1, FS_SUBSET
<1>2. Layouts(n, k) \subseteq SUBSET (0 .. n - 1)
  BY DEF Layouts
<1>3. IsFiniteSet(Layouts(n, k)) /\ Cardinality(Layouts(n, k)) \in Nat
  BY <1>1, <1>2, FS_Subset, FS_CardinalityType
<1>4. ASSUME NEW P
      PROVE  /\ Clear(n, k, P) \subseteq Layouts(n, k)
             /\ IsFiniteSet(Clear(n, k, P)) /\ Cardinality(Clear(n, k, P)) \in Nat
             /\ Cardinality(Clear(n, k, P)) <= Cardinality(Layouts(n, k))
  <2>1. Clear(n, k, P) \subseteq Layouts(n, k)
    BY DEF Clear
  <2> QED BY <1>3, <2>1, FS_Subset, FS_CardinalityType
<1> QED BY <1>3, <1>4

\* moving a trap to a free place can be undone by moving it back
LEMMA MoveTrap ==
  ASSUME NEW n \in Nat, NEW k \in Nat, NEW S \in Layouts(n, k),
         NEW a \in 0 .. n - 1, NEW b \in 0 .. n - 1, b \notin S
  PROVE  /\ Moved(S, a, b) \in Layouts(n, k)
         /\ a \notin Moved(S, a, b)
         /\ Moved(S, a, b) \subseteq S \cup {b}
         /\ Moved(Moved(S, a, b), b, a) = S
<1>1. S \in SUBSET (0 .. n - 1) /\ Cardinality(S) = k /\ IsFiniteSet(S)
  BY BoardPart DEF Layouts
<1>2. CASE a \in S
  <2>1. Moved(S, a, b) = (S \ {a}) \cup {b} /\ a # b
    BY <1>2 DEF Moved
  <2>2. IsFiniteSet(S \ {a}) /\ Cardinality(S \ {a}) = k - 1
    BY <1>1, <1>2, FS_RemoveElement
  <2>3. Cardinality((S \ {a}) \cup {b}) = (k - 1) + 1
    BY <2>2, FS_AddElement
  <2>4. (S \ {a}) \cup {b} \in Layouts(n, k)
    BY <1>1, <2>3 DEF Layouts
  <2>5. b \in Moved(S, a, b) /\ (Moved(S, a, b) \ {b}) \cup {a} = S
    BY <1>2, <2>1
  <2>6. Moved(Moved(S, a, b), b, a) = S
    BY <2>5 DEF Moved
  <2> QED BY <1>2, <2>1, <2>4, <2>6
<1>3. CASE a \notin S
  BY <1>3 DEF Moved
<1> QED BY <1>2, <1>3

\* of the boards clear of P, the share that is clear of one more place
LEMMA OneMoreSafe ==
  ASSUME NEW n \in Nat, NEW k \in Nat, NEW P \in SUBSET (0 .. n - 1),
         NEW t \in (0 .. n - 1) \ P, Cardinality(P) + k <= n
  PROVE  Cardinality(Clear(n, k, P)) * ((n - Cardinality(P)) - k)
           = Cardinality(Clear(n, k, P \cup {t})) * (n - Cardinality(P))
<1> DEFINE R == (0 .. n - 1) \ P
           m == n - Cardinality(P)
           A == Clear(n, k, P)
           B == Clear(n, k, P \cup {t})
           F == [S \in A |-> R \ S]
           W == Pairs(A, R, F)
<1>1. m \in Nat /\ m - k \in Nat /\ IsFiniteSet(R) /\ Cardinality(R) = m
  <2>1. IsFiniteSet(P) /\ Cardinality(P) \in 0 .. n
    BY BoardPart
  <2>2. IsFiniteSet(0 .. n - 1) /\ Cardinality(0 .. n - 1) = n
    BY WholeBoard
  <2>3. Cardinality((0 .. n - 1) \cap P) = Cardinality(P)
    <3>1. (0 .. n - 1) \cap P = P
      OBVIOUS
    <3> QED BY <3>1
  <2>4. IsFiniteSet(R) /\ Cardinality(R) = n - Cardinality((0 .. n - 1) \cap P)
    BY <2>2, FS_Difference
  <2> QED BY <2>1, <2>3, <2>4
<1>2. A = {S \in Layouts(n, k) : S \subseteq R} /\ B = {S \in A : t \notin S}
  BY DEF Clear, Layouts
<1>3. IsFiniteSet(A) /\ IsFiniteSet(B) /\ Cardinality(A) \in Nat /\ Cardinality(B) \in Nat
  BY Boards
<1>4. ASSUME NEW S \in A PROVE IsFiniteSet(R \ S) /\ Cardinality(R \ S) = m - k
  <2>1. S \subseteq R /\ Cardinality(S) = k
    BY <1>2 DEF Layouts
  <2>2. R \cap S = S
    BY <2>1
  <2>3. IsFiniteSet(R \ S) /\ Cardinality(R \ S) = m - Cardinality(R \cap S)
    <3> HIDE DEF R, m
    <3> QED BY <1>1, FS_Difference
  <2> QED BY <2>1, <2>2, <2>3
<1>5. IsFiniteSet(W) /\ Cardinality(W) = Cardinality(A) * (m - k)
  <2>1. F \in [A -> SUBSET R]
    OBVIOUS
  <2>2. \A S \in A : IsFiniteSet(F[S]) /\ Cardinality(F[S]) = m - k
    BY <1>4
  <2>3. PICK c \in Nat : c = m - k
    BY <1>1
  <2> HIDE DEF F, A, R, m
  <2>4. \A S \in A : IsFiniteSet(F[S]) /\ Cardinality(F[S]) = c
    BY <2>2, <2>3
  <2>5. IsFiniteSet(Pairs(A, R, F)) /\ Cardinality(Pairs(A, R, F)) = Cardinality(A) * c
    BY <1>3, <2>1, <2>3, <2>4, CountPairs
  <2> QED BY <2>3, <2>5 DEF W
<1>6. W = {w \in A \X R : w[2] \notin w[1]}
  BY DEF Pairs
<1> DEFINE f == [w \in W |-> <<w[2], Moved(w[1], t, w[2])>>]
           g == [p \in R \X B |-> <<Moved(p[2], p[1], t), p[1]>>]
<1>7. ASSUME NEW S \in A, NEW a \in R, NEW b \in R, b \notin S
      PROVE  Moved(S, a, b) \in A /\ a \notin Moved(S, a, b) /\ Moved(Moved(S, a, b), b, a) = S
  BY <1>2, <1>7, MoveTrap
<1>8. ASSUME NEW w \in W
      PROVE  w = <<w[1], w[2]>> /\ w[1] \in A /\ w[2] \in R /\ w[2] \notin w[1]
  <2> HIDE DEF A, R, W, F
  <2>1. w \in {v \in A \X R : v[2] \notin v[1]}
    BY <1>6
  <2> QED BY <2>1
<1>9. t \in R
  OBVIOUS
<1> HIDE DEF A, B, R, W, F, m
<1>10. f \in [W -> R \X B]
  BY <1>2, <1>7, <1>8, <1>9
<1>11. g \in [R \X B -> W]
  BY <1>2, <1>6, <1>7, <1>9
<1>12. ASSUME NEW w \in W PROVE g[f[w]] = w
  <2>1. f[w] \in R \X B /\ f[w] = <<w[2], Moved(w[1], t, w[2])>>
    BY <1>10
  <2>2. g[f[w]] = <<Moved(Moved(w[1], t, w[2]), w[2], t), w[2]>>
    BY <2>1
  <2>3. Moved(Moved(w[1], t, w[2]), w[2], t) = w[1]
    BY <1>7, <1>8, <1>9
  <2> QED BY <1>8, <2>2, <2>3
<1>13. ASSUME NEW p \in R \X B PROVE f[g[p]] = p
  <2>1. p = <<p[1], p[2]>> /\ p[1] \in R /\ p[2] \in A /\ t \notin p[2]
    BY <1>2
  <2>2. g[p] \in W /\ g[p] = <<Moved(p[2], p[1], t), p[1]>>
    BY <1>11
  <2>3. f[g[p]] = <<p[1], Moved(Moved(p[2], p[1], t), t, p[1])>>
    BY <2>2
  <2> QED BY <1>7, <1>9, <2>1, <2>3
<1>14. Cardinality(R \X B) = Cardinality(W)
  <2>1. \A w \in W : g[f[w]] = w
    BY <1>12
  <2>2. \A p \in R \X B : f[g[p]] = p
    BY <1>13
  <2>3. PICK Q : Q = R \X B
    OBVIOUS
  <2>4. f \in [W -> Q] /\ g \in [Q -> W]
    BY <1>10, <1>11, <2>3
  <2> HIDE DEF f, g
  <2>5. \A p \in Q : f[g[p]] = p
    BY <2>2, <2>3
  <2> QED BY <1>5, <2>1, <2>3, <2>4, <2>5, SameCount
<1>15. Cardinality(R \X B) = m * Cardinality(B)
  BY <1>1, <1>3, FS_Product
<1>16. m * Cardinality(B) = Cardinality(B) * m
  BY <1>1, <1>3
<1> QED BY <1>5, <1>14, <1>15, <1>16 DEF A, B, m

---------------------------------------------------------------------------
(* The multiplier of a ladder, against the boards it has survived.           *)

LEMMA MonotoneTimes ==
  ASSUME NEW x \in Int, NEW y \in Int, x <= y, NEW m \in Nat
  PROVE  m * x <= m * y
OBVIOUS

LEMMA CancelTimes ==
  ASSUME NEW x \in Int, NEW y \in Int, NEW m \in Nat \ {0}, m * x <= m * y
  PROVE  x <= y
<1>1. ASSUME y + 1 <= x PROVE FALSE
  <2>1. m * (y + 1) <= m * x
    BY <1>1, MonotoneTimes
  <2>2. m * (y + 1) = m * y + m /\ m * x \in Int /\ m * y \in Int
    OBVIOUS
  <2> QED BY <2>1, <2>2
<1> QED BY <1>1

\* q is d into x, rounded down
LEMMA RoundedDown ==
  ASSUME NEW x \in Nat, NEW d \in Nat \ {0}
  PROVE  x \div d \in Nat /\ d * (x \div d) <= x /\ x < d * (x \div d) + d
OBVIOUS

\* growing by m/d what stands for s of e boards makes it stand for d/m of them
LEMMA GrownMultiplier ==
  ASSUME NEW b \in Nat, NEW m \in Nat \ {0}, NEW d \in Nat \ {0}, NEW s \in Nat, NEW t \in Nat,
         NEW e \in Nat, NEW a \in Int, NEW z \in Nat, s * d = t * m, t <= e,
         a * e <= b * s, b * s <= z * e
  PROVE  (a - 1) * e <= ((b * m) \div d) * t /\ ((b * m) \div d) * t <= z * e
<1>1. PICK x \in Nat : x = b * m
  OBVIOUS
<1>2. PICK q \in Nat : q = x \div d /\ d * q <= x /\ x < d * q + d
  BY RoundedDown
<1>3. q * t <= b * s
  <2>1. s * (d * q) <= s * x
    BY <1>2, MonotoneTimes
  <2>2. s * (d * q) = (s * d) * q /\ (t * m) * q = m * (q * t)
    OBVIOUS
  <2>3. s * x = m * (b * s)
    BY <1>1
  <2>4. m * (q * t) <= m * (b * s)
    BY <2>1, <2>2, <2>3
  <2> QED BY <2>4, CancelTimes
<1>4. b * s <= q * t + t
  <2>1. s * x <= s * (d * q + d)
    BY <1>2, MonotoneTimes
  <2>2. s * (d * q + d) = (s * d) * (q + 1) /\ (t * m) * (q + 1) = m * (q * t + t)
    OBVIOUS
  <2>3. s * x = m * (b * s)
    BY <1>1
  <2>4. m * (b * s) <= m * (q * t + t)
    BY <2>1, <2>2, <2>3
  <2> QED BY <2>4, CancelTimes
<1>5. (a - 1) * e = a * e - e
  OBVIOUS
<1>6. b * s \in Nat /\ q * t \in Nat /\ a * e \in Int /\ z * e \in Nat
  OBVIOUS
<1>7. (b * m) \div d = q
  BY <1>1, <1>2
<1> QED BY <1>3, <1>4, <1>5, <1>6, <1>7

\* A multiplier b of the board of n places and k traps, P of them passed, is the
\* exact odds short of what |P| divisions have rounded away.
Rung(n, k, P, b) ==
  LET even == Cardinality(Layouts(n, k))
      clear == Cardinality(Clear(n, k, P))
  IN  /\ (BPS_SCALE - Cardinality(P)) * even <= b * clear
      /\ b * clear <= BPS_SCALE * even

\* before the first move every board is still possible
LEMMA FirstRung ==
  ASSUME NEW n \in Nat, NEW k \in Nat
  PROVE  Rung(n, k, {}, BPS_SCALE)
<1>1. Clear(n, k, {}) = Layouts(n, k)
  BY DEF Clear
<1>2. Cardinality({}) = 0
  BY FS_EmptySet
<1>3. PICK e \in Nat : e = Cardinality(Layouts(n, k))
  BY Boards
<1> QED BY <1>1, <1>2, <1>3 DEF Rung, BPS_SCALE

\* a safe move grows the multiplier as it thins out the boards, up to one division
LEMMA NextRung ==
  ASSUME NEW n \in Nat, NEW k \in Nat, NEW P \in SUBSET (0 .. n - 1),
         NEW t \in (0 .. n - 1) \ P, Cardinality(P) + k < n, NEW b \in Nat, Rung(n, k, P, b)
  PROVE  Rung(n, k, P \cup {t}, (b * (n - Cardinality(P))) \div ((n - Cardinality(P)) - k))
<1>1. PICK p \in 0 .. n : p = Cardinality(P) /\ IsFiniteSet(P)
  BY BoardPart
<1>2. Cardinality(P \cup {t}) = p + 1
  BY <1>1, FS_AddElement
<1>3. PICK e \in Nat, s \in Nat, u \in Nat :
        /\ e = Cardinality(Layouts(n, k))
        /\ s = Cardinality(Clear(n, k, P)) /\ u = Cardinality(Clear(n, k, P \cup {t}))
        /\ u <= e
  BY Boards
<1>4. PICK m \in Nat \ {0}, d \in Nat \ {0} : m = n - p /\ d = (n - p) - k
  BY <1>1
<1>5. s * d = u * m
  BY <1>1, <1>3, <1>4, OneMoreSafe
<1>6. (BPS_SCALE - p) * e <= b * s /\ b * s <= BPS_SCALE * e
  BY <1>1, <1>3 DEF Rung
<1>7. PICK a \in Int, z \in Nat : a = BPS_SCALE - p /\ z = BPS_SCALE
  BY <1>1 DEF BPS_SCALE
<1>8. (a - 1) * e <= ((b * m) \div d) * u /\ ((b * m) \div d) * u <= z * e
  BY <1>3, <1>5, <1>6, <1>7, GrownMultiplier
<1>9. BPS_SCALE - (p + 1) = a - 1
  BY <1>1, <1>7 DEF BPS_SCALE
<1> QED BY <1>1, <1>2, <1>3, <1>4, <1>7, <1>8, <1>9 DEF Rung

\* The multiplier of a session of roulette or minesweeper, wherever it is.
FairLadder == game \in Trapped => Rung(size, Cardinality(secret), passed, bps)

LEMMA InitFair == Init => FairLadder
<1> SUFFICES ASSUME Init, game \in Trapped PROVE Rung(size, Cardinality(secret), passed, bps)
  BY DEF FairLadder
<1>1. passed = {} /\ bps = BPS_SCALE
  BY DEF Init
<1>2. size \in Nat /\ size \in Nat \ {0}
  BY Sizes DEF Init
<1>3. Inv
  BY InitInv
<1>4. Cardinality(secret) \in Nat
  <2>1. secret \in SUBSET (0 .. size - 1)
    BY <1>3 DEF Inv, TypeOK
  <2>2. Cardinality(secret) \in 0 .. size
    BY <1>2, <2>1, BoardPart
  <2> QED BY <1>2, <2>2
<1> QED BY <1>1, <1>2, <1>4, FirstRung

LEMMA PullFair == Inv /\ FairLadder /\ Pull => FairLadder'
<1> SUFFICES ASSUME Inv, FairLadder, Pull PROVE FairLadder'
  OBVIOUS
<1>1. /\ game = "russian_roulette" /\ game' = game /\ size' = size /\ secret' = secret
      /\ game \in Games /\ size \in SizesOf(game) /\ bps \in Nat
      /\ secret \in SUBSET (0 .. size - 1) /\ passed \in SUBSET (0 .. size - 1)
      /\ passed \cap secret = {}
  BY DEF Pull, Open, Keep, Inv, TypeOK, Survived, Trapped
<1>2. size \in Nat \ {0}
  BY <1>1, Sizes
<1>3. PICK pos \in Nat, k \in Nat : pos = Cardinality(passed) /\ k = Cardinality(secret)
  BY <1>1, <1>2, BoardPart
<1>4. passed = 0 .. pos - 1 /\ pos < size
  BY <1>1, <1>3 DEF Pull, Inv, Survived
<1>5. Rung(size, k, passed, bps)
  BY <1>1, <1>3 DEF FairLadder, Trapped
<1>6. CASE pos \in secret
  <2>1. passed' = passed /\ bps' = bps
    BY <1>3, <1>6 DEF Pull
  <2> QED BY <1>1, <1>3, <1>5, <2>1 DEF FairLadder
<1>7. CASE pos \notin secret
  <2>1. passed' = passed \cup {pos} /\ bps' = (bps * (size - pos)) \div SafeRemaining(pos)
    BY <1>3, <1>7 DEF Pull
  <2>2. {i \in secret : i >= pos} = secret
    <3>1. ASSUME NEW i \in secret PROVE i >= pos
      <4>1. i \in 0 .. size - 1 /\ i \notin 0 .. pos - 1
        BY <1>1, <1>4
      <4> QED BY <1>2, <1>3, <4>1
    <3> QED BY <3>1
  <2>3. SafeRemaining(pos) = (size - pos) - k
    BY <1>3, <2>2 DEF SafeRemaining
  <2>4. pos \in (0 .. size - 1) \ passed
    BY <1>2, <1>4
  <2>5. pos + k < size
    <3>1. (0 .. size - 1) \ (passed \cup secret) # {}
      BY <1>7, <2>4
    <3> QED BY <1>1, <1>2, <1>3, <3>1, TwoParts
  <2>6. Rung(size, k, passed \cup {pos}, (bps * (size - pos)) \div ((size - pos) - k))
    BY <1>1, <1>2, <1>3, <1>5, <2>4, <2>5, NextRung
  <2> QED BY <1>1, <1>3, <2>1, <2>3, <2>6 DEF FairLadder
<1> QED BY <1>6, <1>7

LEMMA RevealFair == Inv /\ FairLadder /\ Reveal => FairLadder'
<1> SUFFICES ASSUME Inv, FairLadder, Reveal PROVE FairLadder'
  OBVIOUS
<1>1. /\ game = "minesweeper" /\ game' = game /\ size' = size /\ secret' = secret
      /\ game \in Games /\ size \in SizesOf(game) /\ bps \in Nat
      /\ secret \in SUBSET (0 .. size - 1) /\ passed \in SUBSET (0 .. size - 1)
      /\ passed \cap secret = {}
  BY DEF Reveal, Open, Keep, Inv, TypeOK, Survived, Trapped
<1>2. size \in Nat \ {0}
  BY <1>1, Sizes
<1>3. PICK p \in Nat, k \in Nat : p = Cardinality(passed) /\ k = Cardinality(secret)
  BY <1>1, <1>2, BoardPart
<1>4. Rung(size, k, passed, bps)
  BY <1>1, <1>3 DEF FairLadder, Trapped
<1>5. PICK tile \in (0 .. size - 1) \ passed :
        IF tile \in secret
        THEN UNCHANGED <<passed, bps>>
        ELSE passed' = passed \cup {tile} /\ bps' = (bps * (size - p)) \div ((size - p) - k)
  BY <1>3 DEF Reveal
<1>6. CASE tile \in secret
  <2>1. passed' = passed /\ bps' = bps
    BY <1>5, <1>6
  <2> QED BY <1>1, <1>3, <1>4, <2>1 DEF FairLadder
<1>7. CASE tile \notin secret
  <2>1. p + k < size
    <3>1. (0 .. size - 1) \ (passed \cup secret) # {}
      BY <1>5, <1>7
    <3> QED BY <1>1, <1>2, <1>3, <3>1, TwoParts
  <2>2. Rung(size, k, passed \cup {tile}, (bps * (size - p)) \div ((size - p) - k))
    BY <1>1, <1>2, <1>3, <1>4, <1>5, <2>1, NextRung
  <2> QED BY <1>1, <1>3, <1>5, <1>7, <2>2 DEF FairLadder
<1> QED BY <1>6, <1>7

\* the inductive invariant of the odds
LEMMA FairHolds == Spec => [](Inv /\ FairLadder)
<1>1. Inv /\ FairLadder /\ [Next]_vars => (Inv /\ FairLadder)'
  <2> SUFFICES ASSUME Inv, FairLadder, [Next]_vars PROVE FairLadder'
    BY NextInv
  <2>1. CASE Pull
    BY <2>1, PullFair
  <2>2. CASE Reveal
    BY <2>2, RevealFair
  <2>3. CASE CashOut \/ UNCHANGED vars
    BY <2>3 DEF CashOut, Keep, vars, FairLadder
  <2>4. CASE Guess \/ Tick \/ Choose
    BY <2>4 DEF Guess, Tick, Choose, Flip, Roll, PickCup, PickKey, BetOnRacer, Shoot, Drop,
                Decide, Open, Keep, FairLadder, Trapped
  <2> QED BY <2>1, <2>2, <2>3, <2>4 DEF Next
<1> QED BY <1>1, InitInv, InitFair, PTL DEF Spec

---------------------------------------------------------------------------
(* How many boards of each number of traps there are.                        *)

\* a trap more on one of the other places, a trap less on one of its own
LEMMA OneMoreTrap ==
  ASSUME NEW n \in Nat, NEW k \in Nat, k <= n
  PROVE  Cardinality(Layouts(n, k)) * (n - k) = Cardinality(Layouts(n, k + 1)) * (k + 1)
<1> DEFINE D == 0 .. n - 1
           A == Layouts(n, k)
           B == Layouts(n, k + 1)
           F == [S \in A |-> D \ S]
           G == [S \in B |-> S]
           V == Pairs(A, D, F)
           W == Pairs(B, D, G)
           f == [v \in V |-> <<v[1] \cup {v[2]}, v[2]>>]
           g == [w \in W |-> <<w[1] \ {w[2]}, w[2]>>]
<1>1. IsFiniteSet(D) /\ Cardinality(D) = n
  BY WholeBoard
<1>2. IsFiniteSet(A) /\ IsFiniteSet(B) /\ Cardinality(A) \in Nat /\ Cardinality(B) \in Nat
  BY Boards
<1>3. /\ \A S : S \in A <=> S \in SUBSET D /\ Cardinality(S) = k
      /\ \A S : S \in B <=> S \in SUBSET D /\ Cardinality(S) = k + 1
  BY DEF Layouts
<1> HIDE DEF D, A, B
<1>4. /\ V = {v \in A \X D : v[2] \notin v[1]}
      /\ W = {w \in B \X D : w[2] \in w[1]}
  BY DEF Pairs
<1>5. ASSUME NEW S \in SUBSET D PROVE IsFiniteSet(S)
  BY <1>1, FS_Subset
<1>6. IsFiniteSet(V) /\ Cardinality(V) = Cardinality(A) * (n - k)
  <2>1. PICK c \in Nat : c = n - k
    OBVIOUS
  <2>2. F \in [A -> SUBSET D]
    OBVIOUS
  <2>3. ASSUME NEW S \in A PROVE IsFiniteSet(F[S]) /\ Cardinality(F[S]) = c
    <3>1. S \in SUBSET D /\ Cardinality(S) = k /\ D \cap S = S
      BY <1>3
    <3>2. IsFiniteSet(D \ S) /\ Cardinality(D \ S) = Cardinality(D) - Cardinality(D \cap S)
      BY <1>1, FS_Difference
    <3>3. F[S] = D \ S
      OBVIOUS
    <3> QED BY <1>1, <2>1, <3>1, <3>2, <3>3
  <2> HIDE DEF F
  <2>4. \A S \in A : IsFiniteSet(F[S]) /\ Cardinality(F[S]) = c
    BY <2>3
  <2>5. IsFiniteSet(Pairs(A, D, F)) /\ Cardinality(Pairs(A, D, F)) = Cardinality(A) * c
    BY <1>2, <2>1, <2>2, <2>4, CountPairs
  <2> QED BY <2>1, <2>5
<1>7. IsFiniteSet(W) /\ Cardinality(W) = Cardinality(B) * (k + 1)
  <2>1. PICK c \in Nat : c = k + 1
    OBVIOUS
  <2>2. G \in [B -> SUBSET D]
    BY <1>3
  <2>3. ASSUME NEW S \in B PROVE IsFiniteSet(G[S]) /\ Cardinality(G[S]) = c
    BY <1>3, <1>5, <2>1
  <2> HIDE DEF G
  <2>4. \A S \in B : IsFiniteSet(G[S]) /\ Cardinality(G[S]) = c
    BY <2>3
  <2>5. IsFiniteSet(Pairs(B, D, G)) /\ Cardinality(Pairs(B, D, G)) = Cardinality(B) * c
    BY <1>2, <2>1, <2>2, <2>4, CountPairs
  <2> QED BY <2>1, <2>5
<1> HIDE DEF V, W
<1>8. ASSUME NEW v \in V
      PROVE  /\ v = <<v[1], v[2]>> /\ v[2] \notin v[1]
             /\ <<v[1] \cup {v[2]}, v[2]>> \in W
  <2>1. v = <<v[1], v[2]>> /\ v[2] \notin v[1] /\ v[1] \in A /\ v[2] \in D
    BY <1>4
  <2>2. v[1] \in SUBSET D /\ Cardinality(v[1]) = k
    BY <1>3, <2>1
  <2>3. Cardinality(v[1] \cup {v[2]}) = k + 1
    BY <1>5, <2>1, <2>2, FS_AddElement
  <2>4. v[1] \cup {v[2]} \in B
    BY <1>3, <2>1, <2>2, <2>3
  <2> QED BY <1>4, <2>1, <2>4
<1>9. ASSUME NEW w \in W
      PROVE  /\ w = <<w[1], w[2]>> /\ w[2] \in w[1]
             /\ <<w[1] \ {w[2]}, w[2]>> \in V
  <2>1. w = <<w[1], w[2]>> /\ w[2] \in w[1] /\ w[1] \in B /\ w[2] \in D
    BY <1>4
  <2>2. w[1] \in SUBSET D /\ Cardinality(w[1]) = k + 1
    BY <1>3, <2>1
  <2>3. Cardinality(w[1] \ {w[2]}) = (k + 1) - 1
    BY <1>5, <2>1, <2>2, FS_RemoveElement
  <2>4. w[1] \ {w[2]} \in A
    BY <1>3, <2>1, <2>2, <2>3
  <2> QED BY <1>4, <2>1, <2>4
<1>10. f \in [V -> W] /\ g \in [W -> V]
  BY <1>8, <1>9
<1>11. \A v \in V : g[f[v]] = v
  <2> SUFFICES ASSUME NEW v \in V PROVE g[f[v]] = v
    OBVIOUS
  <2>1. f[v] \in W /\ f[v] = <<v[1] \cup {v[2]}, v[2]>>
    BY <1>8
  <2>2. g[f[v]] = <<(v[1] \cup {v[2]}) \ {v[2]}, v[2]>>
    BY <2>1
  <2>3. (v[1] \cup {v[2]}) \ {v[2]} = v[1]
    BY <1>8
  <2> QED BY <1>8, <2>2, <2>3
<1>12. \A w \in W : f[g[w]] = w
  <2> SUFFICES ASSUME NEW w \in W PROVE f[g[w]] = w
    OBVIOUS
  <2>1. g[w] \in V /\ g[w] = <<w[1] \ {w[2]}, w[2]>>
    BY <1>9
  <2>2. f[g[w]] = <<(w[1] \ {w[2]}) \cup {w[2]}, w[2]>>
    BY <2>1
  <2>3. (w[1] \ {w[2]}) \cup {w[2]} = w[1]
    BY <1>9
  <2> QED BY <1>9, <2>2, <2>3
<1>13. Cardinality(W) = Cardinality(V)
  <2> HIDE DEF f, g
  <2> QED BY <1>6, <1>10, <1>11, <1>12, SameCount
<1> QED BY <1>6, <1>7, <1>13 DEF A, B

\* one board has no traps at all
LEMMA NoTraps == \A n \in Nat : Cardinality(Layouts(n, 0)) = 1
<1> SUFFICES ASSUME NEW n \in Nat PROVE Layouts(n, 0) = {{}}
  BY FS_Singleton
<1>1. {} \in Layouts(n, 0)
  BY FS_EmptySet DEF Layouts
<1>2. ASSUME NEW S \in Layouts(n, 0) PROVE S = {}
  <2>1. S \in SUBSET (0 .. n - 1) /\ Cardinality(S) = 0
    BY DEF Layouts
  <2>2. IsFiniteSet(S)
    BY <2>1, BoardPart
  <2> QED BY <2>1, <2>2, FS_EmptySet
<1> QED BY <1>1, <1>2

\* the slots of the plinko board: how many of its 256 paths lead to each
LEMMA PlinkoPaths ==
  /\ Cardinality(Layouts(8, 0)) = 1 /\ Cardinality(Layouts(8, 8)) = 1
  /\ Cardinality(Layouts(8, 1)) = 8 /\ Cardinality(Layouts(8, 7)) = 8
  /\ Cardinality(Layouts(8, 2)) = 28 /\ Cardinality(Layouts(8, 6)) = 28
  /\ Cardinality(Layouts(8, 3)) = 56 /\ Cardinality(Layouts(8, 5)) = 56
  /\ Cardinality(Layouts(8, 4)) = 70
<1> DEFINE c(k) == Cardinality(Layouts(8, k))
<1>1. \A k \in 0 .. 8 : c(k) \in Nat
  BY Boards
<1>2. \A k \in 0 .. 7 : c(k) * (8 - k) = c(k + 1) * (k + 1)
  BY OneMoreTrap
<1>3. c(0) = 1
  BY NoTraps
<1> HIDE DEF c
<1>4. c(1) * 1 = c(0) * 8
  BY <1>2
<1>5. c(2) * 2 = c(1) * 7
  BY <1>2
<1>6. c(3) * 3 = c(2) * 6
  BY <1>2
<1>7. c(4) * 4 = c(3) * 5
  BY <1>2
<1>8. c(5) * 5 = c(4) * 4
  BY <1>2
<1>9. c(6) * 6 = c(5) * 3
  BY <1>2
<1>10. c(7) * 7 = c(6) * 2
  BY <1>2
<1>11. c(8) * 8 = c(7) * 1
  BY <1>2
<1>12. c(1) = 8 /\ c(2) = 28 /\ c(3) = 56
  BY <1>1, <1>3, <1>4, <1>5, <1>6
<1>13. c(4) = 70 /\ c(5) = 56 /\ c(6) = 28
  BY <1>1, <1>7, <1>8, <1>9, <1>12
<1>14. c(7) = 8 /\ c(8) = 1
  BY <1>1, <1>10, <1>11, <1>13
<1> QED BY <1>3, <1>12, <1>13, <1>14 DEF c

\* the boards of fewer than j traps
Fewer(n, j) == {S \in SUBSET (0 .. n - 1) : Cardinality(S) < j}

\* adding up the boards by their number of traps, one number after the other
LEMMA NextClass ==
  ASSUME NEW n \in Nat, NEW j \in Nat, NEW F,
         \A S \in SUBSET (0 .. n - 1) : F[S] \in Nat,
         NEW c \in Nat, \A S \in Layouts(n, j) : F[S] = c
  PROVE  SumOf(F, Fewer(n, j + 1)) = SumOf(F, Fewer(n, j)) + c * Cardinality(Layouts(n, j))
<1>1. IsFiniteSet(SUBSET (0 .. n - 1))
  <2>1. PICK D : D = 0 .. n - 1 /\ IsFiniteSet(D)
    BY WholeBoard
  <2> QED BY <2>1, FS_SUBSET
<1>2. Fewer(n, j + 1) = Fewer(n, j) \cup Layouts(n, j) /\ Fewer(n, j) \cap Layouts(n, j) = {}
  <2>1. \A S \in SUBSET (0 .. n - 1) : Cardinality(S) \in Nat
    BY BoardPart
  <2>2. \A x \in Nat : (x < j + 1 <=> (x < j \/ x = j)) /\ ~(x < j /\ x = j)
    OBVIOUS
  <2> QED BY <2>1, <2>2 DEF Fewer, Layouts
<1>3. IsFiniteSet(Fewer(n, j)) /\ Fewer(n, j) \subseteq SUBSET (0 .. n - 1)
  BY <1>1, FS_Subset DEF Fewer
<1>4. IsFiniteSet(Layouts(n, j)) /\ Layouts(n, j) \subseteq SUBSET (0 .. n - 1)
  BY Boards DEF Layouts
<1>5. SumOf(F, Fewer(n, j) \cup Layouts(n, j)) = SumOf(F, Fewer(n, j)) + SumOf(F, Layouts(n, j))
  BY <1>2, <1>3, <1>4, SumDisjoint
<1>6. SumOf(F, Layouts(n, j)) = c * Cardinality(Layouts(n, j))
  BY <1>4, SumConstant
<1> QED BY <1>2, <1>5, <1>6

LEMMA EightRows ==
  /\ 0 .. 8 - 1 = 0 .. 7 /\ IsFiniteSet(0 .. 7)
  /\ \A S \in SUBSET (0 .. 7) : Cardinality(S) \in 0 .. 8
<1>1. 0 .. 8 - 1 = 0 .. 7
  OBVIOUS
<1>2. IsFiniteSet(0 .. 7)
  <2>1. PICK n \in Nat : n = 8
    OBVIOUS
  <2>2. IsFiniteSet(0 .. n - 1)
    BY WholeBoard
  <2> QED BY <1>1, <2>1, <2>2
<1>3. ASSUME NEW S \in SUBSET (0 .. 7) PROVE Cardinality(S) \in 0 .. 8
  <2>1. 8 \in Nat /\ S \in SUBSET (0 .. 8 - 1)
    BY <1>1
  <2> QED BY <2>1, BoardPart
<1> QED BY <1>1, <1>2, <1>3

\* what depends on the slot only, added up over all the paths
LEMMA PlinkoSum ==
  ASSUME NEW F, NEW h \in [0 .. 8 -> Nat],
         \A S \in SUBSET (0 .. 7) : F[S] = h[Cardinality(S)]
  PROVE  /\ Cardinality(SUBSET (0 .. 7)) = 256
         /\ SumOf(F, SUBSET (0 .. 7)) =
              (h[0] + h[8]) + 8 * (h[1] + h[7]) + 28 * (h[2] + h[6])
                + 56 * (h[3] + h[5]) + 70 * h[4]
<1>1. \A S \in SUBSET (0 .. 7) : Cardinality(S) \in 0 .. 8
  BY EightRows
<1>2. ASSUME NEW G, NEW u \in [0 .. 8 -> Nat], \A S \in SUBSET (0 .. 7) : G[S] = u[Cardinality(S)]
      PROVE  SumOf(G, SUBSET (0 .. 7)) =
               (u[0] + u[8]) + 8 * (u[1] + u[7]) + 28 * (u[2] + u[6])
                 + 56 * (u[3] + u[5]) + 70 * u[4]
  <2> DEFINE s(j) == SumOf(G, Fewer(8, j))
  <2>1. ASSUME NEW j \in 0 .. 8
        PROVE  s(j + 1) = s(j) + u[j] * Cardinality(Layouts(8, j))
    <3>1. \A S \in SUBSET (0 .. 8 - 1) : G[S] \in Nat
      <4>1. SUBSET (0 .. 8 - 1) = SUBSET (0 .. 7)
        BY EightRows
      <4>2. \A S \in SUBSET (0 .. 7) : G[S] \in Nat
        BY <1>1, <1>2
      <4> QED BY <4>1, <4>2
    <3>2. \A S \in Layouts(8, j) : G[S] = u[j]
      BY <1>2, EightRows DEF Layouts
    <3>3. u[j] \in Nat
      OBVIOUS
    <3>4. SumOf(G, Fewer(8, j + 1)) = SumOf(G, Fewer(8, j)) + u[j] * Cardinality(Layouts(8, j))
      <4>1. PICK n \in Nat, c \in Nat : n = 8 /\ c = u[j]
        BY <3>3
      <4>2. \A S \in SUBSET (0 .. n - 1) : G[S] \in Nat
        BY <3>1, <4>1
      <4>3. \A S \in Layouts(n, j) : G[S] = c
        BY <3>2, <4>1
      <4>4. SumOf(G, Fewer(n, j + 1)) = SumOf(G, Fewer(n, j)) + c * Cardinality(Layouts(n, j))
        <5>1. j \in Nat
          OBVIOUS
        <5> QED BY <4>2, <4>3, <5>1, NextClass
      <4> QED BY <4>1, <4>4
    <3> QED BY <3>4
  <2>2. Fewer(8, 0) = {} /\ Fewer(8, 9) = SUBSET (0 .. 7)
    BY EightRows DEF Fewer
  <2>3. s(0) = 0
    BY <2>2, SumEmpty
  <2>4. SumOf(G, SUBSET (0 .. 7)) = s(9)
    BY <2>2
  <2> HIDE DEF s
  <2>5. s(1) = s(0) + u[0] * 1 /\ s(2) = s(1) + u[1] * 8 /\ s(3) = s(2) + u[2] * 28
    BY <2>1, PlinkoPaths
  <2>6. s(4) = s(3) + u[3] * 56 /\ s(5) = s(4) + u[4] * 70 /\ s(6) = s(5) + u[5] * 56
    BY <2>1, PlinkoPaths
  <2>7. s(7) = s(6) + u[6] * 28 /\ s(8) = s(7) + u[7] * 8 /\ s(9) = s(8) + u[8] * 1
    BY <2>1, PlinkoPaths
  <2>8. \A i \in 0 .. 8 : u[i] \in Nat
    OBVIOUS
  <2> QED BY <2>3, <2>4, <2>5, <2>6, <2>7, <2>8
<1>3. Cardinality(SUBSET (0 .. 7)) = 256
  <2> DEFINE one == [S \in SUBSET (0 .. 7) |-> 1]
             u == [i \in 0 .. 8 |-> 1]
  <2>1. u \in [0 .. 8 -> Nat] /\ \A S \in SUBSET (0 .. 7) : one[S] = u[Cardinality(S)]
    BY <1>1
  <2>2. \A i \in 0 .. 8 : u[i] = 1
    OBVIOUS
  <2>3. \A S \in SUBSET (0 .. 7) : one[S] = 1
    OBVIOUS
  <2>4. IsFiniteSet(SUBSET (0 .. 7))
    <3>1. PICK D : D = 0 .. 7 /\ IsFiniteSet(D)
      BY EightRows
    <3> QED BY <3>1, FS_SUBSET
  <2> HIDE DEF one, u
  <2>5. SumOf(one, SUBSET (0 .. 7)) = 256
    <3>1. SumOf(one, SUBSET (0 .. 7)) =
            (u[0] + u[8]) + 8 * (u[1] + u[7]) + 28 * (u[2] + u[6])
              + 56 * (u[3] + u[5]) + 70 * u[4]
      BY <1>2, <2>1
    <3> QED BY <2>2, <3>1
  <2>6. SumOf(one, SUBSET (0 .. 7)) = 1 * Cardinality(SUBSET (0 .. 7))
    BY <2>3, <2>4, SumConstant
  <2>7. Cardinality(SUBSET (0 .. 7)) \in Nat
    BY <2>4, FS_CardinalityType
  <2> QED BY <2>5, <2>6, <2>7
<1> QED BY <1>2, <1>3

---------------------------------------------------------------------------
(* The odds: what the moves made are worth on the secrets they win with.     *)

LEMMA DieFaces == IsFiniteSet(1 .. 6) /\ Cardinality(1 .. 6) = 6
<1>1. \A m \in Nat : IsFiniteSet(1 .. m) /\ Cardinality(1 .. m) = m
  BY FS_Interval
<1>2. PICK m \in Nat : m = 6
  OBVIOUS
<1> QED BY <1>1, <1>2

\* the number of secrets, and of those a choice wins with
LEMMA WinningDraws ==
  ASSUME NEW g \in Games \cap (OneOfN \cup {"dice_tower"}), NEW n \in SizesOf(g),
         NEW c \in Offers(g, n)
  PROVE  /\ IsFiniteSet(Draws(g, n, 0)) /\ Cardinality(Draws(g, n, 0)) \in Nat
         /\ \E v \in Nat, T \in SUBSET Draws(g, n, 0) :
              /\ \A draw \in T : Prize(g, n, c, draw) = v
              /\ \A draw \in Draws(g, n, 0) \ T : Prize(g, n, c, draw) = 0
              /\ (BPS_SCALE - 1) * Cardinality(Draws(g, n, 0)) <= v * Cardinality(T)
              /\ v * Cardinality(T) <= BPS_SCALE * Cardinality(Draws(g, n, 0))
<1>1. n \in Nat \ {0} /\ (g = "penalty_shootout" => n > 1) /\ (g = "dice_tower" => n = 6)
  BY Sizes
<1>2. CASE g \in OneOfN
  <2>1. Draws(g, n, 0) = 0 .. n - 1 /\ c \in 0 .. n - 1
    BY <1>2 DEF Draws, Offers, Trapped, OneOfN
  <2>2. IsFiniteSet(0 .. n - 1) /\ Cardinality(0 .. n - 1) = n
    BY <1>1, WholeBoard
  <2>3. CASE g = "penalty_shootout"
    <3>1. PICK m \in Nat \ {0} : m = n - 1
      BY <1>1, <2>3
    <3>2. PICK x \in Nat : x = n * BPS_SCALE
      BY <1>1 DEF BPS_SCALE
    <3>3. PICK q \in Nat : q = x \div m /\ m * q <= x /\ x < m * q + m
      BY <3>1, <3>2, RoundedDown
    <3> DEFINE T == (0 .. n - 1) \ {c}
    <3>4. Cardinality(T) = m
      <4>1. PICK D : D = 0 .. n - 1
        OBVIOUS
      <4>2. IsFiniteSet(D) /\ c \in D /\ Cardinality(D) = n
        BY <2>1, <2>2, <4>1
      <4>3. Cardinality(D \ {c}) = Cardinality(D) - 1
        BY <4>2, FS_RemoveElement
      <4> QED BY <3>1, <4>1, <4>2, <4>3
    <3>5. \A draw \in 0 .. n - 1 : Prize(g, n, c, draw) = IF c # draw THEN q ELSE 0
      BY <2>3, <3>1, <3>2, <3>3 DEF Prize, Goal
    <3>6. (BPS_SCALE - 1) * n <= q * m /\ q * m <= BPS_SCALE * n
      <4>1. q * m = m * q /\ m * q \in Nat
        OBVIOUS
      <4> QED BY <1>1, <3>1, <3>2, <3>3, <4>1 DEF BPS_SCALE
    <3>7. T \in SUBSET (0 .. n - 1)
      OBVIOUS
    <3>8. (\A draw \in T : Prize(g, n, c, draw) = q)
            /\ (\A draw \in (0 .. n - 1) \ T : Prize(g, n, c, draw) = 0)
      BY <3>5
    <3> HIDE DEF T
    <3> QED BY <2>1, <2>2, <1>1, <3>4, <3>6, <3>7, <3>8
  <2>4. CASE g # "penalty_shootout"
    <3>1. PICK q \in Nat : q = n * BPS_SCALE
      BY <1>1 DEF BPS_SCALE
    <3>2. Cardinality({c}) = 1
      BY FS_Singleton
    <3>3. \A draw \in 0 .. n - 1 : Prize(g, n, c, draw) = IF c = draw THEN q ELSE 0
      BY <1>2, <2>4, <3>1 DEF Prize, RightOne, OneOfN
    <3>4. (BPS_SCALE - 1) * n <= q * 1 /\ q * 1 <= BPS_SCALE * n
      BY <1>1, <3>1 DEF BPS_SCALE
    <3>5. /\ {c} \in SUBSET (0 .. n - 1)
          /\ \A draw \in {c} : Prize(g, n, c, draw) = q
          /\ \A draw \in (0 .. n - 1) \ {c} : Prize(g, n, c, draw) = 0
      BY <2>1, <3>3
    <3> QED BY <1>1, <2>1, <2>2, <3>2, <3>4, <3>5
  <2> QED BY <2>3, <2>4
<1>3. CASE g = "dice_tower"
  <2> DEFINE D == (1 .. 6) \X (1 .. 6)
             High == {d \in D : d[1] + d[2] >= 8}
             Low == {d \in D : d[1] + d[2] <= 6}
             Seven == {d \in D : d[1] + d[2] = 7}
  <2>1. Draws(g, n, 0) = D /\ c \in {"high", "low", "seven"}
    BY <1>1, <1>3 DEF Draws, Offers, Trapped, OneOfN
  <2>2. IsFiniteSet(1 .. 6) /\ Cardinality(1 .. 6) = 6
    BY DieFaces
  <2>3. IsFiniteSet(D) /\ Cardinality(D) = 36
    BY <2>2, FS_Product
  <2>4. IsFiniteSet(High) /\ IsFiniteSet(Low) /\ IsFiniteSet(Seven)
    BY <2>3, FS_Subset
  <2>5. Cardinality(Seven) = 6
    <3> DEFINE I == 1 .. 6
               f == [i \in I |-> <<i, 7 - i>>]
               h == [d \in Seven |-> d[1]]
    <3>1. f \in [I -> Seven] /\ h \in [Seven -> I]
      OBVIOUS
    <3>2. \A i \in I : h[f[i]] = i
      OBVIOUS
    <3>3. \A d \in Seven : f[h[d]] = d
      OBVIOUS
    <3> HIDE DEF I, f, h, Seven
    <3> QED BY <2>2, <3>1, <3>2, <3>3, SameCount DEF I
  <2>6. Cardinality(High) = Cardinality(Low)
    <3> DEFINE f == [d \in Low |-> <<7 - d[1], 7 - d[2]>>]
               h == [d \in High |-> <<7 - d[1], 7 - d[2]>>]
    <3>1. f \in [Low -> High] /\ h \in [High -> Low]
      OBVIOUS
    <3>2. \A d \in Low : h[f[d]] = d
      OBVIOUS
    <3>3. \A d \in High : f[h[d]] = d
      OBVIOUS
    <3> HIDE DEF f, h, High, Low
    <3> QED BY <2>4, <3>1, <3>2, <3>3, SameCount
  <2>7. Cardinality(High) = 15 /\ Cardinality(Low) = 15
    <3>1. D = (High \cup Low) \cup Seven
      OBVIOUS
    <3>2. High \cap Low = {} /\ (High \cup Low) \cap Seven = {}
      OBVIOUS
    <3>3. Cardinality(High) \in Nat /\ Cardinality(Low) \in Nat
      BY <2>4, FS_CardinalityType
    <3> HIDE DEF D, High, Low, Seven
    <3>4. IsFiniteSet(High \cup Low) /\ Cardinality(High \cup Low) = Cardinality(High) + Cardinality(Low)
      BY <2>4, <3>2, <3>3, FS_Union, FS_EmptySet
    <3>5. Cardinality((High \cup Low) \cup Seven) = Cardinality(High \cup Low) + 6
      <4>1. PICK U : U = High \cup Low
        OBVIOUS
      <4>2. IsFiniteSet(U) /\ Cardinality(U) \in Nat /\ U \cap Seven = {}
        BY <3>2, <3>4, <4>1, FS_CardinalityType
      <4>3. Cardinality(U \cup Seven) = Cardinality(U) + Cardinality(Seven) - Cardinality(U \cap Seven)
        BY <2>4, <4>2, FS_Union
      <4>4. Cardinality(U \cap Seven) = 0
        BY <4>2, FS_EmptySet
      <4> QED BY <2>5, <4>1, <4>2, <4>3, <4>4
    <3> QED BY <2>3, <2>6, <3>1, <3>3, <3>4, <3>5
  <2>8. \A d \in D : Prize(g, n, c, d) = DicePrize(c, d[1] + d[2]) /\ d[1] + d[2] \in Nat
    BY <1>3 DEF Prize, OneOfN
  <2>9. CASE c = "seven"
    <3>1. \A d \in D : Prize(g, n, c, d) = IF d \in Seven THEN 60000 ELSE 0
      BY <2>8, <2>9 DEF DicePrize, Predicts
    <3>2. (\A d \in Seven : Prize(g, n, c, d) = 60000) /\ (\A d \in D \ Seven : Prize(g, n, c, d) = 0)
      BY <3>1
    <3>3. Seven \in SUBSET D
      OBVIOUS
    <3>4. (BPS_SCALE - 1) * 36 <= 60000 * 6 /\ 60000 * 6 <= BPS_SCALE * 36
      BY DEF BPS_SCALE
    <3> HIDE DEF D, Seven
    <3> QED BY <2>1, <2>3, <2>5, <3>2, <3>3, <3>4
  <2>10. CASE c = "high"
    <3>1. \A d \in D : Prize(g, n, c, d) = IF d \in High THEN 24000 ELSE 0
      BY <2>8, <2>10 DEF DicePrize, Predicts
    <3>2. (\A d \in High : Prize(g, n, c, d) = 24000) /\ (\A d \in D \ High : Prize(g, n, c, d) = 0)
      BY <3>1
    <3>3. High \in SUBSET D
      OBVIOUS
    <3>4. (BPS_SCALE - 1) * 36 <= 24000 * 15 /\ 24000 * 15 <= BPS_SCALE * 36
      BY DEF BPS_SCALE
    <3> HIDE DEF D, High
    <3> QED BY <2>1, <2>3, <2>7, <3>2, <3>3, <3>4
  <2>11. CASE c = "low"
    <3>1. \A d \in D : Prize(g, n, c, d) = IF d \in Low THEN 24000 ELSE 0
      BY <2>8, <2>11 DEF DicePrize, Predicts
    <3>2. (\A d \in Low : Prize(g, n, c, d) = 24000) /\ (\A d \in D \ Low : Prize(g, n, c, d) = 0)
      BY <3>1
    <3>3. Low \in SUBSET D
      OBVIOUS
    <3>4. (BPS_SCALE - 1) * 36 <= 24000 * 15 /\ 24000 * 15 <= BPS_SCALE * 36
      BY DEF BPS_SCALE
    <3> HIDE DEF D, Low
    <3> QED BY <2>1, <2>3, <2>7, <3>2, <3>3, <3>4
  <2> QED BY <2>1, <2>9, <2>10, <2>11
<1> QED BY <1>2, <1>3

\* a one-shot game that was played was played by one of its offers
LEMMA TheChoice ==
  ASSUME Inv, Played, game \in OneShot
  PROVE  /\ (CHOOSE c \in passed : TRUE) \in Offers(game, size)
         /\ IsFiniteSet(passed) /\ Cardinality(passed) \in Nat \ {0}
<1>1. passed \subseteq Offers(game, size) /\ passed # {} /\ size \in Nat
      /\ game \in Games /\ size \in SizesOf(game)
  BY Sizes DEF Inv, TypeOK, Played
<1>2. IsFiniteSet(Offers(game, size))
  <2>1. CASE game \in OneOfN
    <3>1. Offers(game, size) = 0 .. size - 1
      BY <2>1 DEF Offers, OneOfN
    <3> QED BY <1>1, <3>1, WholeBoard
  <2>2. CASE game = "dice_tower"
    <3>1. Offers(game, size) = {"high", "low", "seven"}
      BY <2>2 DEF Offers, OneOfN
    <3>2. {"high", "low", "seven"} = ({"high"} \cup {"low"}) \cup {"seven"}
      OBVIOUS
    <3>3. IsFiniteSet({"high"}) /\ IsFiniteSet({"low"}) /\ IsFiniteSet({"seven"})
      BY FS_Singleton
    <3>4. IsFiniteSet({"high"} \cup {"low"})
      BY <3>3, FS_Union
    <3>5. IsFiniteSet(({"high"} \cup {"low"}) \cup {"seven"})
      BY <3>3, <3>4, FS_Union
    <3> QED BY <3>1, <3>2, <3>5
  <2>3. CASE game = "plinko"
    BY <2>3, FS_Singleton DEF Offers, OneOfN
  <2> QED BY <2>1, <2>2, <2>3 DEF OneShot
<1>3. IsFiniteSet(passed) /\ Cardinality(passed) \in Nat /\ Cardinality(passed) # 0
  BY <1>1, <1>2, FS_Subset, FS_CardinalityType, FS_EmptySet
<1> QED BY <1>1, <1>3

\* Every game but plinko pays one multiplier on the secrets the moves survive or
\* win with and nothing on the others, at the exact odds short of the rounding.
LEMMA OnePrice ==
  ASSUME Inv, FairLadder, Played, game # "plinko"
  PROVE  /\ IsFiniteSet(Alternatives) /\ Cardinality(Alternatives) \in Nat
         /\ \E v \in Nat, T \in SUBSET Alternatives :
              /\ \A draw \in T : Worth(draw) = v
              /\ \A draw \in Alternatives \ T : Worth(draw) = 0
              /\ (BPS_SCALE - Cardinality(passed)) * Cardinality(Alternatives)
                   <= v * Cardinality(T)
              /\ v * Cardinality(T) <= BPS_SCALE * Cardinality(Alternatives)
<1>1. game \in Games /\ size \in SizesOf(game) /\ bps \in Nat /\ size \in Nat \ {0}
  BY Sizes DEF Inv, TypeOK
<1>2. CASE game \in Trapped
  <2>1. secret \in SUBSET (0 .. size - 1) /\ passed \in SUBSET (0 .. size - 1)
    BY <1>2 DEF Inv, TypeOK
  <2>2. PICK k \in Nat : k = Cardinality(secret)
    BY <1>1, <2>1, BoardPart
  <2>3. Alternatives = Layouts(size, k)
    <3>1. Alternatives = Draws(game, size, k)
      BY <1>2, <2>2 DEF Alternatives
    <3> QED BY <1>2, <3>1 DEF Draws, Trapped, OneOfN
  <2>4. PICK T : T = Clear(size, k, passed)
    OBVIOUS
  <2>5. T \in SUBSET Alternatives /\ T = {draw \in Alternatives : passed \cap draw = {}}
    BY <2>3, <2>4 DEF Clear
  <2>6. (\A draw \in T : Worth(draw) = bps) /\ (\A draw \in Alternatives \ T : Worth(draw) = 0)
    BY <1>2, <2>5 DEF Worth
  <2>7. Rung(size, k, passed, bps)
    BY <1>2, <2>2 DEF FairLadder
  <2>8. /\ (BPS_SCALE - Cardinality(passed)) * Cardinality(Alternatives) <= bps * Cardinality(T)
        /\ bps * Cardinality(T) <= BPS_SCALE * Cardinality(Alternatives)
    BY <2>3, <2>4, <2>7 DEF Rung
  <2>9. IsFiniteSet(Alternatives) /\ Cardinality(Alternatives) \in Nat
    BY <1>1, <2>2, <2>3, Boards
  <2> QED BY <1>1, <2>5, <2>6, <2>8, <2>9
<1>3. CASE game \in OneShot
  <2>1. game \in OneOfN \cup {"dice_tower"} /\ game \notin Trapped
    BY <1>3 DEF OneShot, Played, OneOfN, Trapped
  <2>2. PICK c \in Offers(game, size) : c = CHOOSE x \in passed : TRUE
    BY <1>3, TheChoice
  <2>3. Alternatives = Draws(game, size, 0)
    BY <2>1 DEF Alternatives
  <2>4. \A draw : Worth(draw) = Prize(game, size, c, draw)
    BY <2>1, <2>2 DEF Worth
  <2>5. IsFiniteSet(Alternatives) /\ Cardinality(Alternatives) \in Nat
    BY <1>1, <2>1, <2>2, <2>3, WinningDraws
  <2>6. PICK v \in Nat, T \in SUBSET Alternatives :
          /\ \A draw \in T : Worth(draw) = v
          /\ \A draw \in Alternatives \ T : Worth(draw) = 0
          /\ (BPS_SCALE - 1) * Cardinality(Alternatives) <= v * Cardinality(T)
          /\ v * Cardinality(T) <= BPS_SCALE * Cardinality(Alternatives)
    <3>1. PICK v \in Nat, T \in SUBSET Draws(game, size, 0) :
            /\ \A draw \in T : Prize(game, size, c, draw) = v
            /\ \A draw \in Draws(game, size, 0) \ T : Prize(game, size, c, draw) = 0
            /\ (BPS_SCALE - 1) * Cardinality(Draws(game, size, 0)) <= v * Cardinality(T)
            /\ v * Cardinality(T) <= BPS_SCALE * Cardinality(Draws(game, size, 0))
      BY <1>1, <2>1, <2>2, WinningDraws
    <3>2. /\ \A draw \in T : Worth(draw) = v
          /\ \A draw \in Alternatives \ T : Worth(draw) = 0
      BY <2>3, <2>4, <3>1
    <3> QED BY <2>3, <3>1, <3>2
  <2>7. PICK p \in Nat \ {0}, e \in Nat : p = Cardinality(passed) /\ e = Cardinality(Alternatives)
    BY <1>3, <2>5, TheChoice
  <2>8. (BPS_SCALE - p) * e <= (BPS_SCALE - 1) * e
    <3>1. e * (BPS_SCALE - p) <= e * (BPS_SCALE - 1)
      BY <2>7, MonotoneTimes DEF BPS_SCALE
    <3> QED BY <2>7, <3>1 DEF BPS_SCALE
  <2>9. v * Cardinality(T) \in Nat
    BY <2>5, <2>6, FS_Subset, FS_CardinalityType
  <2>10. (BPS_SCALE - p) * e \in Int /\ (BPS_SCALE - 1) * e \in Int
    BY <2>7 DEF BPS_SCALE
  <2>11. (BPS_SCALE - p) * e <= v * Cardinality(T)
    BY <2>6, <2>7, <2>8, <2>9, <2>10
  <2> QED BY <2>5, <2>6, <2>7, <2>11
<1> QED BY <1>2, <1>3 DEF Played

\* the model's sum over all secrets, taken by values, is the sum of FiniteSums
LEMMA OverSum ==
  ASSUME NEW f, IsFiniteSet(Alternatives), \A draw \in Alternatives : f[draw] \in Nat
  PROVE  OverAlternatives(f) = SumOf(f, Alternatives)
<1> DEFINE values == {f[draw] : draw \in Alternatives}
           share == [v \in values |-> v * Cardinality({draw \in Alternatives : f[draw] = v})]
<1>1. OverAlternatives(f) = SumOf(share, values)
  BY DEF OverAlternatives, MapThenSumSet, MapThenFoldSet, SumOf, SumFn, AnyOf
<1>2. IsFiniteSet(values)
  <2> DEFINE g == [draw \in Alternatives |-> f[draw]]
  <2>1. g \in Surjection(Alternatives, values)
    BY DEF Surjection
  <2> QED BY <2>1, FS_Surjection
<1>3. \A v \in values : v \in Nat
  OBVIOUS
<1>4. \A draw \in Alternatives : f[draw] \in values
  OBVIOUS
<1>5. \A v \in values : share[v] = v * Cardinality({draw \in Alternatives : f[draw] = v})
  OBVIOUS
<1> HIDE DEF values, share
<1>6. SumOf(share, values) = SumOf(f, Alternatives)
  BY <1>2, <1>3, <1>4, <1>5, SumByValue
<1> QED BY <1>1, <1>6

\* Before the house edge every multiplier offered is the exact odds, short of the
\* divisions' rounding, for every size of board, every number of traps and every
\* play: a ladder's own multiplier times the boards it survives, a one-shot's
\* prize times the draws it wins with (the engines' "fair" multipliers).
THEOREM FairOdds == Spec => []PlayersGetFairOdds
<1>1. ASSUME Inv, FairLadder PROVE PlayersGetFairOdds
  <2> SUFFICES ASSUME Played, game # "plinko"
               PROVE  LET total == OverAlternatives([draw \in Alternatives |-> Worth(draw)])
                          even == Cardinality(Alternatives)
                      IN  /\ (BPS_SCALE - Cardinality(passed)) * even <= total
                          /\ total <= BPS_SCALE * even
    BY DEF PlayersGetFairOdds
  <2> DEFINE f == [draw \in Alternatives |-> Worth(draw)]
  <2>1. PICK v \in Nat, T \in SUBSET Alternatives :
          /\ \A draw \in T : Worth(draw) = v
          /\ \A draw \in Alternatives \ T : Worth(draw) = 0
          /\ (BPS_SCALE - Cardinality(passed)) * Cardinality(Alternatives) <= v * Cardinality(T)
          /\ v * Cardinality(T) <= BPS_SCALE * Cardinality(Alternatives)
    BY <1>1, OnePrice
  <2>2. (\A draw \in T : f[draw] = v) /\ (\A draw \in Alternatives \ T : f[draw] = 0)
    BY <2>1
  <2>3. IsFiniteSet(Alternatives)
    BY <1>1, OnePrice
  <2> HIDE DEF f
  <2>4. SumOf(f, Alternatives) = v * Cardinality(T)
    BY <2>2, <2>3, SumTwoValued
  <2>5. OverAlternatives(f) = v * Cardinality(T)
    <3>1. \A draw \in Alternatives : f[draw] \in Nat
      BY <2>2
    <3> QED BY <2>3, <2>4, <3>1, OverSum
  <2> QED BY <2>1, <2>5 DEF f
<1> QED BY <1>1, FairHolds, PTL

\* what the edge leaves of a fair multiplier
LEMMA EdgeOnFair ==
  ASSUME NEW bet \in Nat, NEW v \in Nat, NEW t \in Nat, NEW e \in Nat, v * t <= BPS_SCALE * e
  PROVE  /\ payoutWithEdge(bet, v) \in Nat /\ payoutWithEdge(bet, 0) = 0
         /\ 1000 * (payoutWithEdge(bet, v) * t) <= 970 * bet * e
<1>1. PICK x \in Nat : x = bet * v * 97
  OBVIOUS
<1>2. PICK q \in Nat : q = x \div 1000000 /\ 1000000 * q <= x
  BY <1>1, RoundedDown
<1>3. HOUSE_EDGE_BPS \div 100 = 97 /\ BPS_SCALE * 100 = 1000000
  BY DEF HOUSE_EDGE_BPS, BPS_SCALE
<1>4. payoutWithEdge(bet, v) = q
  BY <1>1, <1>2, <1>3 DEF payoutWithEdge
<1>5. payoutWithEdge(bet, 0) = 0
  BY <1>3 DEF payoutWithEdge
<1>6. 1000 * (q * t) <= 970 * bet * e
  <2>1. PICK y \in Nat : y = v * t /\ y <= 10000 * e
    BY DEF BPS_SCALE
  <2>2. t * (1000000 * q) <= t * x
    BY <1>2, MonotoneTimes
  <2>3. t * x = (97 * bet) * y
    BY <1>1, <2>1
  <2>4. (97 * bet) * y <= (97 * bet) * (10000 * e)
    <3>1. 97 * bet \in Nat /\ 10000 * e \in Nat
      OBVIOUS
    <3> QED BY <2>1, <3>1, MonotoneTimes
  <2>5. t * (1000000 * q) = 1000 * (1000 * (q * t)) /\ (97 * bet) * (10000 * e) = 1000 * (970 * bet * e)
    OBVIOUS
  <2>6. PICK l \in Nat, r \in Nat : l = 1000 * (q * t) /\ r = 970 * bet * e
    OBVIOUS
  <2>7. 1000 * l <= 1000 * r
    BY <2>2, <2>3, <2>4, <2>5, <2>6
  <2> QED BY <2>6, <2>7
<1> QED BY <1>4, <1>5, <1>6

\* plinko's table over the paths of the ball
LEMMA PlinkoEdge ==
  ASSUME Inv, game = "plinko", Played, NEW bet \in Nat
  PROVE  1000 * OverAlternatives([draw \in Alternatives |-> PayoutAt(bet, Worth(draw))])
           <= 985 * bet * Cardinality(Alternatives)
<1> DEFINE f == [draw \in Alternatives |-> PayoutAt(bet, Worth(draw))]
           h == [k \in 0 .. 8 |-> rawPayout(bet, SLOT_MULTIPLIERS_BPS[k + 1])]
<1>1. Alternatives = SUBSET (0 .. 7)
  <2>1. size = 8
    BY Sizes DEF Inv, TypeOK
  <2>2. Alternatives = SUBSET (0 .. size - 1)
    BY DEF Alternatives, Draws, Trapped, OneOfN
  <2> QED BY <2>1, <2>2, EightRows
<1>2. \A draw : Worth(draw) = SLOT_MULTIPLIERS_BPS[Cardinality(draw) + 1]
  BY DEF Worth, Prize, Trapped, OneOfN
<1>3. ASSUME NEW m \in Nat PROVE rawPayout(bet, m) \in Nat /\ 10000 * rawPayout(bet, m) <= bet * m
  <2>1. PICK x \in Nat : x = bet * m
    OBVIOUS
  <2> QED BY <2>1, RoundedDown DEF rawPayout, BPS_SCALE
<1>4. \A k \in 0 .. 8 : SLOT_MULTIPLIERS_BPS[k + 1] \in Nat
  BY DEF SLOT_MULTIPLIERS_BPS
<1>5. h \in [0 .. 8 -> Nat]
  <2>1. \A k \in 0 .. 8 : rawPayout(bet, SLOT_MULTIPLIERS_BPS[k + 1]) \in Nat
    <3>1. ASSUME NEW k \in 0 .. 8 PROVE rawPayout(bet, SLOT_MULTIPLIERS_BPS[k + 1]) \in Nat
      <4>1. PICK m \in Nat : m = SLOT_MULTIPLIERS_BPS[k + 1]
        BY <1>4
      <4> QED BY <1>3, <4>1
    <3> QED BY <3>1
  <2> QED BY <2>1
<1>6. \A S \in SUBSET (0 .. 7) : f[S] = h[Cardinality(S)]
  BY <1>1, <1>2, EightRows DEF PayoutAt
<1>7. \A k \in 0 .. 8 : h[k] = rawPayout(bet, SLOT_MULTIPLIERS_BPS[k + 1])
  OBVIOUS
<1> HIDE DEF f, h
<1>8. /\ Cardinality(Alternatives) = 256
      /\ OverAlternatives(f) =
           (h[0] + h[8]) + 8 * (h[1] + h[7]) + 28 * (h[2] + h[6]) + 56 * (h[3] + h[5]) + 70 * h[4]
  <2>1. IsFiniteSet(Alternatives)
    <3>1. PICK D : D = 0 .. 7 /\ IsFiniteSet(D)
      BY EightRows
    <3> QED BY <1>1, <3>1, FS_SUBSET
  <2>2. \A draw \in Alternatives : f[draw] \in Nat
    BY <1>1, <1>5, <1>6, EightRows
  <2>3. OverAlternatives(f) = SumOf(f, Alternatives)
    BY <2>1, <2>2, OverSum
  <2> QED BY <1>1, <1>5, <1>6, <2>3, PlinkoSum
<1>9. ASSUME NEW k \in 0 .. 8, NEW m \in Nat, SLOT_MULTIPLIERS_BPS[k + 1] = m
      PROVE  h[k] \in Nat /\ 10000 * h[k] <= bet * m
  BY <1>3, <1>7, <1>9
<1>10. /\ h[0] \in Nat /\ 10000 * h[0] <= bet * 120000 /\ h[8] \in Nat /\ 10000 * h[8] <= bet * 120000
       /\ h[1] \in Nat /\ 10000 * h[1] <= bet * 30000 /\ h[7] \in Nat /\ 10000 * h[7] <= bet * 30000
       /\ h[2] \in Nat /\ 10000 * h[2] <= bet * 15000 /\ h[6] \in Nat /\ 10000 * h[6] <= bet * 15000
       /\ h[3] \in Nat /\ 10000 * h[3] <= bet * 7000 /\ h[5] \in Nat /\ 10000 * h[5] <= bet * 7000
       /\ h[4] \in Nat /\ 10000 * h[4] <= bet * 2500
  <2>1. /\ SLOT_MULTIPLIERS_BPS[0 + 1] = 120000 /\ SLOT_MULTIPLIERS_BPS[8 + 1] = 120000
        /\ SLOT_MULTIPLIERS_BPS[1 + 1] = 30000 /\ SLOT_MULTIPLIERS_BPS[7 + 1] = 30000
        /\ SLOT_MULTIPLIERS_BPS[2 + 1] = 15000 /\ SLOT_MULTIPLIERS_BPS[6 + 1] = 15000
        /\ SLOT_MULTIPLIERS_BPS[3 + 1] = 7000 /\ SLOT_MULTIPLIERS_BPS[5 + 1] = 7000
        /\ SLOT_MULTIPLIERS_BPS[4 + 1] = 2500
    BY DEF SLOT_MULTIPLIERS_BPS
  <2>2. h[0] \in Nat /\ 10000 * h[0] <= bet * 120000 /\ h[8] \in Nat /\ 10000 * h[8] <= bet * 120000
    BY <1>9, <2>1
  <2>3. h[1] \in Nat /\ 10000 * h[1] <= bet * 30000 /\ h[7] \in Nat /\ 10000 * h[7] <= bet * 30000
    BY <1>9, <2>1
  <2>4. h[2] \in Nat /\ 10000 * h[2] <= bet * 15000 /\ h[6] \in Nat /\ 10000 * h[6] <= bet * 15000
    BY <1>9, <2>1
  <2>5. h[3] \in Nat /\ 10000 * h[3] <= bet * 7000 /\ h[5] \in Nat /\ 10000 * h[5] <= bet * 7000
    BY <1>9, <2>1
  <2>6. h[4] \in Nat /\ 10000 * h[4] <= bet * 2500
    BY <1>9, <2>1
  <2> QED BY <2>2, <2>3, <2>4, <2>5, <2>6
<1>11. 1000 * OverAlternatives(f) <= 985 * bet * 256
  BY <1>8, <1>10
<1> QED BY <1>8, <1>11 DEF f

\* payout.js:11 "97% RTP (3% house edge)": whatever is played, however large the
\* board and the stake, the payouts over all the equally likely secrets come to no
\* more than 97% of the stakes, and 98.5% for plinko, which pays without an edge.
THEOREM HouseEdge == Spec => []HouseKeepsItsEdge
<1>1. ASSUME Inv, FairLadder PROVE HouseKeepsItsEdge
  <2> SUFFICES ASSUME Played, NEW bet \in Stakes
               PROVE  1000 * OverAlternatives([draw \in Alternatives |-> PayoutAt(bet, Worth(draw))])
                        <= (IF game = "plinko" THEN 985 ELSE 970) * bet * Cardinality(Alternatives)
    BY DEF HouseKeepsItsEdge
  <2>1. bet \in Nat
    BY ParametersAssumption
  <2>2. CASE game = "plinko"
    BY <1>1, <2>1, <2>2, PlinkoEdge
  <2>3. CASE game # "plinko"
    <3> DEFINE f == [draw \in Alternatives |-> PayoutAt(bet, Worth(draw))]
    <3>1. PICK v \in Nat, T \in SUBSET Alternatives :
            /\ \A draw \in T : Worth(draw) = v
            /\ \A draw \in Alternatives \ T : Worth(draw) = 0
            /\ v * Cardinality(T) <= BPS_SCALE * Cardinality(Alternatives)
      BY <1>1, <2>3, OnePrice
    <3>2. IsFiniteSet(Alternatives) /\ Cardinality(Alternatives) \in Nat
      BY <1>1, <2>3, OnePrice
    <3>3. PICK t \in Nat, e \in Nat : t = Cardinality(T) /\ e = Cardinality(Alternatives)
      BY <3>2, FS_Subset, FS_CardinalityType
    <3>4. /\ payoutWithEdge(bet, v) \in Nat /\ payoutWithEdge(bet, 0) = 0
          /\ 1000 * (payoutWithEdge(bet, v) * t) <= 970 * bet * e
      BY <2>1, <3>1, <3>3, EdgeOnFair
    <3>5. \A m : PayoutAt(bet, m) = payoutWithEdge(bet, m)
      BY <2>3 DEF PayoutAt, Played, Trapped, OneShot, OneOfN
    <3>6. /\ \A draw \in T : f[draw] = payoutWithEdge(bet, v)
          /\ \A draw \in Alternatives \ T : f[draw] = 0
      BY <3>1, <3>4, <3>5
    <3> HIDE DEF f
    <3>7. SumOf(f, Alternatives) = payoutWithEdge(bet, v) * Cardinality(T)
      <4>1. PICK c \in Nat : c = payoutWithEdge(bet, v)
        BY <3>4
      <4>2. SumOf(f, Alternatives) = c * Cardinality(T)
        BY <3>2, <3>6, <4>1, SumTwoValued
      <4> QED BY <4>1, <4>2
    <3>8. OverAlternatives(f) = payoutWithEdge(bet, v) * t
      <4>1. \A draw \in Alternatives : f[draw] \in Nat
        BY <3>4, <3>6
      <4> QED BY <3>2, <3>3, <3>7, <4>1, OverSum
    <3> QED BY <2>3, <3>3, <3>4, <3>8 DEF f
  <2> QED BY <2>2, <2>3
<1> QED BY <1>1, FairHolds, PTL

---------------------------------------------------------------------------
(* How large a payout gets: settlement refuses more than MAX_PAYOUT_MULTIPLIER *)
(* times the stake, and the numbers of the ladders are doubles.               *)

MAX_PAYOUT_MULTIPLIER == 10000000      \* gameSettlementService.js:21
withinStakeCap(payout, pointsBet) ==
  pointsBet <= 0 \/ payout <= pointsBet * MAX_PAYOUT_MULTIPLIER
DEFAULT_TILES == 25                    \* minesweeper.js:9
MAX_SAFE_INTEGER == 9007199254740991   \* 2^53 - 1: integers up to here are exact doubles

\* no number of traps has more layouts on the default board than 12 or 13
LEMMA DefaultBoard ==
  ASSUME NEW k \in Nat
  PROVE  Cardinality(Layouts(25, k)) <= 5200300
<1> DEFINE c(i) == Cardinality(Layouts(25, i))
<1>1. \A i \in 0 .. 25 : c(i) \in Nat
  BY Boards
<1>2. \A i \in 0 .. 24 : c(i) * (25 - i) = c(i + 1) * (i + 1)
  BY OneMoreTrap
<1>3. c(0) = 1
  BY NoTraps
<1>4. CASE k > 25
  <2>1. Layouts(25, k) = {}
    <3>1. PICK n \in Nat : n = 25
      OBVIOUS
    <3>2. \A S \in SUBSET (0 .. n - 1) : Cardinality(S) \in 0 .. n
      BY BoardPart
    <3> QED BY <1>4, <3>1, <3>2 DEF Layouts
  <2> QED BY <2>1, FS_EmptySet
<1> HIDE DEF c
<1>5. c(1) = 25 /\ c(2) = 300 /\ c(3) = 2300 /\ c(4) = 12650 /\ c(5) = 53130
  <2>1. c(0) * 25 = c(1) * 1 /\ c(1) * 24 = c(2) * 2 /\ c(2) * 23 = c(3) * 3
    BY <1>2
  <2>2. c(3) * 22 = c(4) * 4 /\ c(4) * 21 = c(5) * 5
    BY <1>2
  <2> QED BY <1>1, <1>3, <2>1, <2>2
<1>6. c(6) = 177100 /\ c(7) = 480700 /\ c(8) = 1081575 /\ c(9) = 2042975 /\ c(10) = 3268760
  <2>1. c(5) * 20 = c(6) * 6 /\ c(6) * 19 = c(7) * 7 /\ c(7) * 18 = c(8) * 8
    BY <1>2
  <2>2. c(8) * 17 = c(9) * 9 /\ c(9) * 16 = c(10) * 10
    BY <1>2
  <2> QED BY <1>1, <1>5, <2>1, <2>2
<1>7. c(11) = 4457400 /\ c(12) = 5200300 /\ c(13) = 5200300 /\ c(14) = 4457400 /\ c(15) = 3268760
  <2>1. c(10) * 15 = c(11) * 11 /\ c(11) * 14 = c(12) * 12 /\ c(12) * 13 = c(13) * 13
    BY <1>2
  <2>2. c(13) * 12 = c(14) * 14 /\ c(14) * 11 = c(15) * 15
    BY <1>2
  <2> QED BY <1>1, <1>6, <2>1, <2>2
<1>8. c(16) = 2042975 /\ c(17) = 1081575 /\ c(18) = 480700 /\ c(19) = 177100 /\ c(20) = 53130
  <2>1. c(15) * 10 = c(16) * 16 /\ c(16) * 9 = c(17) * 17 /\ c(17) * 8 = c(18) * 18
    BY <1>2
  <2>2. c(18) * 7 = c(19) * 19 /\ c(19) * 6 = c(20) * 20
    BY <1>2
  <2> QED BY <1>1, <1>7, <2>1, <2>2
<1>9. c(21) = 12650 /\ c(22) = 2300 /\ c(23) = 300 /\ c(24) = 25 /\ c(25) = 1
  <2>1. c(20) * 5 = c(21) * 21 /\ c(21) * 4 = c(22) * 22 /\ c(22) * 3 = c(23) * 23
    BY <1>2
  <2>2. c(23) * 2 = c(24) * 24 /\ c(24) * 1 = c(25) * 25
    BY <1>2
  <2> QED BY <1>1, <1>8, <2>1, <2>2
<1>10. \A i \in 0 .. 25 : c(i) <= 5200300
  BY <1>3, <1>5, <1>6, <1>7, <1>8, <1>9
<1> QED BY <1>4, <1>10 DEF c

\* nor has any smaller board more layouts
LEMMA SmallBoards ==
  ASSUME NEW n \in Nat, n <= DEFAULT_TILES, NEW k \in Nat
  PROVE  Cardinality(Layouts(n, k)) <= 5200300
<1>1. PICK m \in Nat : m = 25
  OBVIOUS
<1>2. Layouts(n, k) \subseteq Layouts(m, k)
  <2>1. 0 .. n - 1 \subseteq 0 .. m - 1
    BY <1>1 DEF DEFAULT_TILES
  <2> QED BY <2>1 DEF Layouts
<1>3. IsFiniteSet(Layouts(m, k)) /\ Cardinality(Layouts(m, k)) \in Nat
  BY Boards
<1>4. Cardinality(Layouts(n, k)) <= Cardinality(Layouts(m, k)) /\ Cardinality(Layouts(n, k)) \in Nat
  BY <1>2, <1>3, Boards, FS_Subset
<1>5. Cardinality(Layouts(m, k)) <= 5200300
  BY <1>1, DefaultBoard
<1> QED BY <1>3, <1>4, <1>5

\* The board played on is one of those the ladder's multiplier has survived, so
\* the multiplier is at most the number of boards.
LEMMA LadderBound ==
  ASSUME Inv, FairLadder, game \in Trapped
  PROVE  /\ bps \in Nat /\ size \in Nat \ {0}
         /\ bps <= BPS_SCALE * Cardinality(Alternatives)
         /\ size <= DEFAULT_TILES => bps <= 52003000000
<1>1. /\ game \in Games /\ size \in SizesOf(game) /\ bps \in Nat /\ size \in Nat \ {0}
      /\ secret \in SUBSET (0 .. size - 1) /\ passed \cap secret = {}
  BY Sizes DEF Inv, TypeOK, Survived
<1>2. PICK k \in Nat : k = Cardinality(secret)
  BY <1>1, BoardPart
<1>3. Alternatives = Layouts(size, k)
  <2>1. Alternatives = Draws(game, size, k)
    BY <1>2 DEF Alternatives
  <2> QED BY <2>1 DEF Draws, Trapped, OneOfN
<1>4. secret \in Clear(size, k, passed)
  BY <1>1, <1>2 DEF Clear, Layouts
<1>5. PICK u \in Nat, e \in Nat :
        /\ u = Cardinality(Clear(size, k, passed)) /\ e = Cardinality(Layouts(size, k))
        /\ IsFiniteSet(Clear(size, k, passed))
  BY <1>1, Boards
<1>6. u >= 1
  BY <1>4, <1>5, FS_EmptySet
<1>7. bps * u <= BPS_SCALE * e
  BY <1>2, <1>5 DEF FairLadder, Rung
<1>8. bps <= BPS_SCALE * e
  <2>1. bps * 1 <= bps * u
    BY <1>1, <1>6, MonotoneTimes
  <2> QED BY <1>1, <1>7, <2>1 DEF BPS_SCALE
<1>9. size <= DEFAULT_TILES => e <= 5200300
  BY <1>1, <1>5, SmallBoards
<1> QED BY <1>1, <1>3, <1>5, <1>8, <1>9 DEF BPS_SCALE

\* minesweeper.js:128 and russianRoulette.js:130 grow the multiplier in doubles,
\* `Math.floor((multiplierBps * remaining) / safeRemaining)`: in roulette and on
\* boards up to the default one the product is an exact integer.
LaddersStayExact ==
  game \in Trapped /\ size <= DEFAULT_TILES =>
    bps * (size - Cardinality(passed)) <= MAX_SAFE_INTEGER

\* gameSettlementService.js:18 "Deliberately generous so it never rejects a
\* legitimate jackpot": no payout of an engine other than hi_lo, on boards up to
\* the default one, is refused for its multiple of the stake.
PayoutsPassTheCap ==
  game # "hi_lo" /\ (game = "minesweeper" => size <= DEFAULT_TILES) =>
    \A bet \in Stakes : withinStakeCap(Payout(bet), bet)

\* What a ladder multiplies stays below 2^53 up to the default board, whatever the
\* traps and the moves.
THEOREM ExactLadders == Spec => []LaddersStayExact
<1>1. ASSUME Inv, FairLadder PROVE LaddersStayExact
  <2> SUFFICES ASSUME game \in Trapped, size <= DEFAULT_TILES
               PROVE  bps * (size - Cardinality(passed)) <= MAX_SAFE_INTEGER
    BY DEF LaddersStayExact
  <2>1. bps \in Nat /\ bps <= 52003000000 /\ size \in Nat
    BY <1>1, LadderBound
  <2>2. PICK r \in 0 .. 25 : r = size - Cardinality(passed)
    <3>1. passed \in SUBSET (0 .. size - 1)
      BY <1>1 DEF Inv, TypeOK
    <3>2. Cardinality(passed) \in 0 .. size
      BY <2>1, <3>1, BoardPart
    <3> QED BY <2>1, <3>2 DEF DEFAULT_TILES
  <2>3. bps * r <= bps * 25
    BY <2>1, <2>2, MonotoneTimes
  <2> QED BY <2>1, <2>2, <2>3 DEF MAX_SAFE_INTEGER
<1> QED BY <1>1, FairHolds, PTL

\* a payout of a multiplier, with or without the edge
LEMMA PayoutBound ==
  ASSUME NEW bet \in Nat, NEW m \in Nat, m <= 52003000000
  PROVE  /\ payoutWithEdge(bet, m) <= MAX_PAYOUT_MULTIPLIER * bet
         /\ rawPayout(bet, m) <= MAX_PAYOUT_MULTIPLIER * bet
<1>1. bet * m <= bet * 52003000000
  BY MonotoneTimes
<1>2. PICK x \in Nat : x = bet * m /\ x <= bet * 52003000000
  BY <1>1
<1>3. (x * 97) \div 1000000 <= 10000000 * bet
  BY <1>2
<1>4. x \div 10000 <= 10000000 * bet
  BY <1>2
<1> QED BY <1>2, <1>3, <1>4
        DEF payoutWithEdge, rawPayout, HOUSE_EDGE_BPS, BPS_SCALE, MAX_PAYOUT_MULTIPLIER

\* what a one-shot game pays at most: twelve times the stake
LEMMA PrizeBound ==
  ASSUME NEW g \in OneShot \cap Games, NEW n \in SizesOf(g), NEW choice \in Offers(g, n),
         NEW draw \in Draws(g, n, 0)
  PROVE  Prize(g, n, choice, draw) <= 120000
<1>1. n \in 2 .. 12 /\ g \in AllGames
  BY ParametersAssumption DEF SizesOf, KeyCounts, Racers, Zones, OneShot, OneOfN, Trapped
<1>2. CASE g = "penalty_shootout"
  <2>1. PICK m \in Nat \ {0}, x \in Nat : m = n - 1 /\ x = n * BPS_SCALE
    BY <1>1 DEF BPS_SCALE
  <2>2. x \div m \in Nat /\ m * (x \div m) <= x
    BY <2>1, RoundedDown
  <2>3. x \div m <= x
    <3>1. PICK q \in Nat : q = x \div m
      BY <2>2
    <3>2. q * 1 <= q * m
      <4>1. 1 <= m
        OBVIOUS
      <4> QED BY <3>1, <4>1, MonotoneTimes
    <3>3. q * m = m * q
      BY <3>1
    <3> QED BY <2>1, <2>2, <3>1, <3>2, <3>3
  <2>4. x <= 120000
    BY <1>1, <2>1 DEF BPS_SCALE
  <2>5. Prize(g, n, choice, draw) = IF choice # draw THEN x \div m ELSE 0
    BY <1>2, <2>1 DEF Prize, Goal
  <2> QED BY <2>1, <2>2, <2>3, <2>4, <2>5
<1>3. CASE g \in OneOfN \ {"penalty_shootout"}
  <2>1. Prize(g, n, choice, draw) = IF choice = draw THEN n * BPS_SCALE ELSE 0
    BY <1>3 DEF Prize, RightOne, OneOfN
  <2> QED BY <1>1, <2>1 DEF BPS_SCALE
<1>4. CASE g = "dice_tower"
  BY <1>4 DEF Prize, DicePrize, OneOfN
<1>5. CASE g = "plinko"
  <2>1. n = 8 /\ draw \in SUBSET (0 .. n - 1)
    BY <1>5, Sizes DEF Draws, Trapped, OneOfN
  <2>2. Cardinality(draw) \in 0 .. 8
    BY <2>1, BoardPart
  <2>3. Prize(g, n, choice, draw) = SLOT_MULTIPLIERS_BPS[Cardinality(draw) + 1]
    BY <1>5 DEF Prize, OneOfN
  <2>4. \A i \in 1 .. 9 : SLOT_MULTIPLIERS_BPS[i] <= 120000
    BY DEF SLOT_MULTIPLIERS_BPS
  <2> QED BY <2>2, <2>3, <2>4
<1> QED BY <1>2, <1>3, <1>4, <1>5 DEF OneShot

\* A settlement never refuses what a game legitimately won for its multiple of the
\* stake (gameSettlementService.js:17-20), hi_lo and boards of more than 25 tiles
\* excepted.
THEOREM PayoutsAreAccepted == Spec => []PayoutsPassTheCap
<1>1. ASSUME Inv, FairLadder PROVE PayoutsPassTheCap
  <2> SUFFICES ASSUME game # "hi_lo", game = "minesweeper" => size <= DEFAULT_TILES,
                      NEW bet \in Stakes
               PROVE  withinStakeCap(Payout(bet), bet)
    BY DEF PayoutsPassTheCap
  <2>1. /\ bet \in Nat /\ game \in Games /\ game \in AllGames /\ size \in SizesOf(game)
        /\ bps \in Nat
    BY <1>1, ParametersAssumption DEF Inv, TypeOK
  <2>2. ASSUME ~Payable PROVE Payout(bet) <= MAX_PAYOUT_MULTIPLIER * bet
    BY <2>1, <2>2 DEF Payout, MAX_PAYOUT_MULTIPLIER
  <2>3. ASSUME Payable PROVE bps <= 52003000000
    <3>1. CASE game \in Trapped
      <4>1. size <= DEFAULT_TILES
        BY <2>1, <3>1, ParametersAssumption DEF SizesOf, Trapped, DEFAULT_TILES
      <4> QED BY <1>1, <3>1, <4>1, LadderBound
    <3>2. CASE game \in OneShot
      <4>1. PICK choice : passed = {choice} /\ bps = Prize(game, size, choice, secret)
        BY <1>1, <2>3, <3>2 DEF Inv, Survived, Payable, Trapped, OneShot, OneOfN
      <4>2. choice \in Offers(game, size) /\ secret \in Draws(game, size, 0)
        BY <1>1, <3>2, <4>1 DEF Inv, TypeOK
      <4>3. bps <= 120000
        BY <2>1, <3>2, <4>1, <4>2, PrizeBound
      <4> QED BY <2>1, <4>3
    <3>3. CASE game = "crash"
      <4>1. secret \in CrashPoints
        BY <1>1, <3>3 DEF Inv, TypeOK
      <4>2. bps < secret \/ bps = BPS_SCALE
        BY <1>1, <3>3 DEF Inv, Survived
      <4>3. CrashPoints \subseteq BPS_SCALE .. MAX_CRASH_BPS
        BY ParametersAssumption
      <4>4. BPS_SCALE \in Nat /\ MAX_CRASH_BPS \in Nat
        BY DEF BPS_SCALE, MAX_CRASH_BPS
      <4>5. secret \in BPS_SCALE .. MAX_CRASH_BPS
        BY <4>1, <4>3
      <4>6. secret \in Nat /\ BPS_SCALE <= secret /\ secret <= MAX_CRASH_BPS
        BY <4>4, <4>5
      <4>7. bps <= MAX_CRASH_BPS
        BY <2>1, <4>2, <4>4, <4>6
      <4> QED BY <2>1, <4>7 DEF MAX_CRASH_BPS
    <3> QED BY <2>1, <3>1, <3>2, <3>3 DEF AllGames
  <2>4. ASSUME Payable PROVE Payout(bet) <= MAX_PAYOUT_MULTIPLIER * bet
    BY <2>1, <2>3, <2>4, PayoutBound DEF Payout, PayoutAt
  <2>5. MAX_PAYOUT_MULTIPLIER * bet = bet * MAX_PAYOUT_MULTIPLIER
    BY <2>1 DEF MAX_PAYOUT_MULTIPLIER
  <2> QED BY <2>2, <2>4, <2>5 DEF withinStakeCap
<1> QED BY <1>1, FairHolds, PTL

\* 26 places, half of them traps
LEMMA LargerBoard == Cardinality(Layouts(26, 13)) = 10400600
<1> DEFINE c(i) == Cardinality(Layouts(26, i))
<1>1. \A i \in 0 .. 26 : c(i) \in Nat
  BY Boards
<1>2. \A i \in 0 .. 25 : c(i) * (26 - i) = c(i + 1) * (i + 1)
  BY OneMoreTrap
<1>3. c(0) = 1
  BY NoTraps
<1> HIDE DEF c
<1>4. c(1) = 26 /\ c(2) = 325 /\ c(3) = 2600 /\ c(4) = 14950
  <2>1. c(0) * 26 = c(1) * 1 /\ c(1) * 25 = c(2) * 2
    BY <1>2
  <2>2. c(2) * 24 = c(3) * 3 /\ c(3) * 23 = c(4) * 4
    BY <1>2
  <2> QED BY <1>1, <1>3, <2>1, <2>2
<1>5. c(5) = 65780 /\ c(6) = 230230 /\ c(7) = 657800 /\ c(8) = 1562275 /\ c(9) = 3124550
  <2>1. c(4) * 22 = c(5) * 5 /\ c(5) * 21 = c(6) * 6 /\ c(6) * 20 = c(7) * 7
    BY <1>2
  <2>2. c(7) * 19 = c(8) * 8 /\ c(8) * 18 = c(9) * 9
    BY <1>2
  <2> QED BY <1>1, <1>4, <2>1, <2>2
<1>6. c(10) = 5311735 /\ c(11) = 7726160 /\ c(12) = 9657700 /\ c(13) = 10400600
  <2>1. c(9) * 17 = c(10) * 10 /\ c(10) * 16 = c(11) * 11
    BY <1>2
  <2>2. c(11) * 15 = c(12) * 12 /\ c(12) * 14 = c(13) * 13
    BY <1>2
  <2> QED BY <1>1, <1>5, <2>1, <2>2
<1> QED BY <1>6 DEF c

\* a board of 26 tiles with 13 mines, all of its safe tiles found
Cleared26 ==
  /\ game = "minesweeper" /\ size = DEFAULT_TILES + 1 /\ Cardinality(secret) = 13
  /\ passed = (0 .. size - 1) \ secret /\ outcome = "CASHED_OUT"

\* One tile more than the default, and gameSettlementService.js:18 "never rejects a
\* legitimate jackpot" no longer holds: clearing 26 tiles with 13 mines is worth
\* more than the cap, and the settlement of that win is refused.
RefusedWhenCleared ==
  Cleared26 => \A bet \in Stakes : ~withinStakeCap(Payout(bet), bet)

\* The exact odds, short of one point per reveal, already exceed the cap.
THEOREM LargerBoardsAreRefused == Spec => []RefusedWhenCleared
<1>1. ASSUME Inv, FairLadder PROVE RefusedWhenCleared
  <2> SUFFICES ASSUME Cleared26, NEW bet \in Stakes
               PROVE  ~withinStakeCap(Payout(bet), bet)
    BY DEF RefusedWhenCleared
  <2>0. Cleared26
    OBVIOUS
  <2>1. bet \in Nat \ {0} /\ bps \in Nat
    BY <1>1, ParametersAssumption DEF Inv, TypeOK
  <2>2. size = 26 /\ secret \in SUBSET (0 .. size - 1) /\ Cardinality(secret) = 13
    <3>1. game \in Trapped
      BY <1>1, <2>0 DEF Cleared26, Trapped
    <3>2. secret \in SUBSET (0 .. size - 1)
      BY <1>1, <3>1 DEF Inv, TypeOK
    <3> QED BY <1>1, <2>0, <3>2 DEF Cleared26, DEFAULT_TILES
  <2>3. Cardinality(passed) = 13
    <3>1. PICK n \in Nat : n = size /\ n = 26
      BY <2>2
    <3>2. passed \in SUBSET (0 .. n - 1) /\ secret \in SUBSET (0 .. n - 1)
          /\ secret \cap passed = {} /\ (0 .. n - 1) \ (secret \cup passed) = {}
      BY <1>1, <2>0, <2>2, <3>1 DEF Cleared26
    <3>3. Cardinality(secret) + Cardinality(passed) = n /\ Cardinality(passed) \in 0 .. n
      BY <3>2, TwoParts, BoardPart
    <3> QED BY <2>2, <3>1, <3>3
  <2>4. Clear(26, 13, passed) = {secret}
    <3>1. secret \in Clear(26, 13, passed)
      BY <1>1, <2>0, <2>2 DEF Clear, Layouts, Cleared26
    <3>2. ASSUME NEW S \in Clear(26, 13, passed) PROVE S = secret
      <4>1. S \in SUBSET (0 .. 26 - 1) /\ Cardinality(S) = 13 /\ passed \cap S = {}
        BY DEF Clear, Layouts
      <4>2. S \subseteq secret
        BY <1>1, <2>0, <2>2, <4>1 DEF Cleared26
      <4>3. IsFiniteSet(secret)
        BY <2>2, BoardPart
      <4> QED BY <2>2, <4>1, <4>2, <4>3, FS_Subset
    <3> QED BY <3>1, <3>2
  <2>5. Cardinality(Clear(26, 13, passed)) = 1
    BY <2>4, FS_Singleton
  <2>6. (BPS_SCALE - 13) * 10400600 <= bps * 1
    BY <1>1, <2>0, <2>2, <2>3, <2>5, LargerBoard DEF FairLadder, Rung, Cleared26, Trapped
  <2>7. bps >= 103870792200
    BY <2>1, <2>6 DEF BPS_SCALE
  <2>8. Payout(bet) = (bet * bps * 97) \div 1000000
    BY <1>1, <2>0 DEF Cleared26, Payout, Payable, PayoutAt, Trapped, OneShot, OneOfN, payoutWithEdge,
                HOUSE_EDGE_BPS, BPS_SCALE
  <2>9. PICK x \in Nat : x = bet * bps /\ x >= bet * 103870792200
    BY <2>1, <2>7, MonotoneTimes
  <2>10. (x * 97) \div 1000000 > bet * 10000000
    BY <2>1, <2>9
  <2> QED BY <2>1, <2>8, <2>9, <2>10 DEF withinStakeCap, MAX_PAYOUT_MULTIPLIER
<1> QED BY <1>1, FairHolds, PTL
=============================================================================
