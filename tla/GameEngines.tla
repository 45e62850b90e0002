---------------------------- MODULE GameEngines ----------------------------
(* One session of any of the eleven engines behind /initiate, /process and  *)
(* /settle: the secret drawn when it opens, the moves the client makes, the *)
(* multiplier that grows in basis points and the payout it settles for. A   *)
(* move the engine refuses (unknown action, bad payload, finished game)     *)
(* leaves the metadata as it was and is a stuttering step.                  *)
EXTENDS Integers, FiniteSets, FiniteSetsExt

CONSTANTS Games,         \* engines registered, among AllGames
          Chambers,      \* params.chambers of russian_roulette
          Tiles,         \* params.tiles of minesweeper
          Options,       \* params.keys, racers and zones
          CrashPoints,   \* crash points drawn
          Ranks, Copies, \* the deck of hi_lo
          Stakes         \* bets

VARIABLES game, size,    \* the engine and the size parameter of the session
          secret,        \* what the engine drew and never shows
          passed,        \* chambers survived, safe tiles revealed or the one choice made
          bps,           \* multiplierBps (currentBps of crash)
          outcome,       \* how the round ended, as the metadata records it
          status         \* what the last accepted step answered; WIN and LOSE settle

vars == <<game, size, secret, passed, bps, outcome, status>>

BPS_SCALE == 10000
HOUSE_EDGE_BPS == 9700
MAX_CRASH_BPS == 100000

Trapped == {"russian_roulette", "minesweeper"}
OneOfN == {"coin_flip", "shell_game", "vault", "derby", "penalty_shootout"}
OneShot == OneOfN \cup {"dice_tower", "plinko"}
\* the one-shot engines that draw when the move is made
DrawnLate == {"coin_flip", "dice_tower", "plinko"}
AllGames == Trapped \cup OneShot \cup {"hi_lo", "crash"}

ASSUME ParametersAssumption ==
  /\ Games \subseteq AllGames
  /\ Chambers \subseteq 2 .. 20 /\ Tiles \subseteq 2 .. 100
  /\ Options \subseteq 2 .. 12
  /\ CrashPoints \subseteq BPS_SCALE .. MAX_CRASH_BPS
  /\ Ranks \subseteq Nat /\ IsFiniteSet(Ranks) /\ Cardinality(Ranks) > 1
  /\ Copies \in Nat \ {0}
  /\ Stakes \subseteq Nat \ {0}

---------------------------------------------------------------------------
(* Payout math: BigInt division, rounded down.                             *)

rawPayout(bet, mult) == (bet * mult) \div BPS_SCALE
payoutWithEdge(bet, mult) ==
  (bet * mult * (HOUSE_EDGE_BPS \div 100)) \div (BPS_SCALE * 100)

---------------------------------------------------------------------------
(* What the engines draw, and what a choice is worth in basis points.       *)

\* sizes the params of a game may ask for
KeyCounts == Options \cap 2 .. 10
Racers == Options \cap 2 .. 12
Zones == Options \cap 2 .. 6
SizesOf(g) ==
  CASE g = "russian_roulette" -> Chambers
    [] g = "minesweeper" -> Tiles
    [] g = "vault" -> KeyCounts
    [] g = "derby" -> Racers
    [] g = "penalty_shootout" -> Zones
    [] g = "shell_game" -> {3}
    [] g = "coin_flip" -> {2}
    [] g = "dice_tower" -> {6}
    [] g = "plinko" -> {8}
    [] OTHER -> {1}

\* the equally likely secrets of a game of n options with k traps; a plinko
\* ball bounces right in the rows of its draw
Layouts(n, k) == {S \in SUBSET (0 .. n - 1) : Cardinality(S) = k}
Draws(g, n, k) ==
  CASE g \in Trapped -> Layouts(n, k)
    [] g \in OneOfN -> 0 .. n - 1
    [] g = "dice_tower" -> (1 .. n) \X (1 .. n)
    [] g = "plinko" -> SUBSET (0 .. n - 1)

Offers(g, n) ==
  CASE g \in OneOfN -> 0 .. n - 1
    [] g = "dice_tower" -> {"high", "low", "seven"}
    [] g = "plinko" -> {"drop"}

\* n : 1 on one of n options
RightOne(n, choice, draw) == IF choice = draw THEN n * BPS_SCALE ELSE 0
\* a goal is any zone but the one the goalie dives to
Goal(n, zone, dive) == IF zone # dive THEN (n * BPS_SCALE) \div (n - 1) ELSE 0
Predicts(prediction, sum) ==
  \/ prediction = "high" /\ sum >= 8
  \/ prediction = "low" /\ sum <= 6
  \/ prediction = "seven" /\ sum = 7
DicePrize(prediction, sum) ==
  IF ~Predicts(prediction, sum) THEN 0
  ELSE IF prediction = "seven" THEN 60000 ELSE 24000
SLOT_MULTIPLIERS_BPS ==
  <<120000, 30000, 15000, 7000, 2500, 7000, 15000, 30000, 120000>>
Prize(g, n, choice, draw) ==
  CASE g = "penalty_shootout" -> Goal(n, choice, draw)
    [] g \in OneOfN \ {"penalty_shootout"} -> RightOne(n, choice, draw)
    [] g = "dice_tower" -> DicePrize(choice, draw[1] + draw[2])
    [] g = "plinko" -> SLOT_MULTIPLIERS_BPS[Cardinality(draw) + 1]

---------------------------------------------------------------------------
(* initiate: the secret is drawn, if the engine has one before the move.     *)

NewDeck == [v \in Ranks |-> Copies]
Without(deck, v) == [deck EXCEPT ![v] = @ - 1]
Init ==
  /\ game \in Games
  /\ size \in SizesOf(game)
  /\ passed = {}
  /\ bps = BPS_SCALE
  /\ outcome = "IN_PROGRESS" /\ status = "CONTINUE"
  /\ \/ game \in Trapped /\ \E k \in 1 .. size - 1 : secret \in Layouts(size, k)
     \/ game \in OneShot \ DrawnLate /\ secret \in Draws(game, size, 0)
     \/ game \in DrawnLate /\ secret = "not drawn"
     \/ game = "crash" /\ secret \in CrashPoints
     \/ game = "hi_lo" /\ \E v \in Ranks : secret = [card |-> v, left |-> Without(NewDeck, v)]

---------------------------------------------------------------------------
(* processStep, one action per move.                                       *)

Open(g) == game = g /\ outcome = "IN_PROGRESS"
Keep == UNCHANGED <<game, size, secret>>
\* slip: the step's status is stored in place of the outcome
EndsWithStatus(o, s) == outcome' = s /\ status' = s
Ends(o, s) == outcome' = o /\ status' = s
\* a safe move, the last one or not
Survives(last) == IF last THEN Ends("CASHED_OUT", "WIN") ELSE Ends("IN_PROGRESS", "CONTINUE")

CashOut ==
  /\ game \notin OneShot /\ outcome = "IN_PROGRESS"
  /\ Ends("CASHED_OUT", "WIN")
  /\ Keep /\ UNCHANGED <<passed, bps>>

\* slip: the odds of the first pull, whatever was pulled since
SafeAtFirst(pos) == size - Cardinality(secret)
\* chambers not pulled yet, without the bullets among them
SafeRemaining(pos) == (size - pos) - Cardinality({i \in secret : i >= pos})

\* the next chamber in order; the multiplier grows by the odds of surviving it
\* (a fatal pull moves metadata.position too, which nothing reads afterwards)
Pull ==
  LET pos == Cardinality(passed) IN
  /\ Open("russian_roulette")
  /\ pos < size
  /\ IF pos \in secret
     THEN Ends("DEAD", "LOSE") /\ UNCHANGED <<passed, bps>>
     ELSE /\ passed' = passed \cup {pos}
          /\ bps' = (bps * (size - pos)) \div SafeRemaining(pos)
          /\ Survives(pos + 1 >= size)
  /\ Keep

\* slip: the board is never complete
NeverAllFound(revealed) == FALSE
AllSafeFound(revealed) == Cardinality(revealed) = size - Cardinality(secret)

\* any tile not revealed yet; finding the last safe one wins
Reveal ==
  LET remaining == size - Cardinality(passed) IN
  /\ Open("minesweeper")
  /\ \E tile \in (0 .. size - 1) \ passed :
       IF tile \in secret
       THEN Ends("DEAD", "LOSE") /\ UNCHANGED <<passed, bps>>
       ELSE /\ passed' = passed \cup {tile}
            /\ bps' = (bps * remaining) \div (remaining - Cardinality(secret))
            /\ Survives(AllSafeFound(passed'))
  /\ Keep

\* ranks on the side of the guess, whatever has been drawn already
Favorable(direction, v) ==
  Cardinality({w \in Ranks : IF direction = "higher" THEN w > v ELSE w < v})
CardsLeft == {v \in Ranks : secret.left[v] > 0}

\* the next card of the shuffled deck, drawn here; a tie loses
Guess ==
  /\ Open("hi_lo")
  /\ \E direction \in {"higher", "lower"}, card \in CardsLeft :
       LET favorable == Favorable(direction, secret.card)
           correct == IF direction = "higher" THEN card > secret.card ELSE card < secret.card
           left == Without(secret.left, card)
       IN
       IF favorable = 0 \/ ~correct
       THEN /\ Ends("LOST", "LOSE")
            /\ secret' = [secret EXCEPT !.left = left]
            /\ UNCHANGED bps
       ELSE /\ secret' = [card |-> card, left |-> left]
            /\ bps' = (bps * Cardinality(Ranks)) \div favorable
            /\ Survives(\A v \in Ranks : left[v] = 0)
  /\ UNCHANGED <<game, size, passed>>

Crashes(next) == next >= secret
Tick ==
  LET next == (bps * 105) \div 100 IN
  /\ Open("crash")
  /\ IF Crashes(next) THEN Ends("CRASHED", "LOSE") /\ UNCHANGED bps
     ELSE bps' = next /\ Ends("IN_PROGRESS", "CONTINUE")
  /\ Keep /\ UNCHANGED passed

\* the only move of a one-shot game: what the choice is worth against the draw
Decide(choice, draw) ==
  /\ passed' = {choice}
  /\ secret' = draw
  /\ bps' = Prize(game, size, choice, draw)
  /\ UNCHANGED <<game, size>>
WonOrLost == IF bps' > 0 THEN Ends("WON", "WIN") ELSE Ends("LOST", "LOSE")

Flip ==
  /\ Open("coin_flip")
  /\ \E side \in 0 .. 1, coin \in 0 .. 1 : Decide(side, coin)
  /\ WonOrLost
Roll ==
  /\ Open("dice_tower")
  /\ \E prediction \in Offers(game, size), d1, d2 \in 1 .. 6 :
       Decide(prediction, <<d1, d2>>)
  /\ WonOrLost
PickCup ==
  /\ Open("shell_game")
  /\ \E cup \in 0 .. 2 : Decide(cup, secret)
  /\ WonOrLost
PickKey ==
  /\ Open("vault")
  /\ \E key \in 0 .. size - 1 : Decide(key, secret)
  /\ WonOrLost
BetOnRacer ==
  /\ Open("derby")
  /\ \E racer \in 0 .. size - 1 : Decide(racer, secret)
  /\ WonOrLost
Shoot ==
  /\ Open("penalty_shootout")
  /\ \E zone \in 0 .. size - 1 : Decide(zone, secret)
  /\ WonOrLost
\* plinko always pays the multiplier of its slot, and always wins
Drop ==
  /\ Open("plinko")
  /\ \E rights \in SUBSET (0 .. size - 1) : Decide("drop", rights)
  /\ Ends("DROPPED", "WIN")

Choose == Flip \/ Roll \/ PickCup \/ PickKey \/ BetOnRacer \/ Shoot \/ Drop
Next == CashOut \/ Pull \/ Reveal \/ Guess \/ Tick \/ Choose
Spec == Init /\ [][Next]_vars

---------------------------------------------------------------------------
(* settle: a ladder pays unless it ended badly, a one-shot once it is won.   *)

\* slip: every ladder denies only the outcome hi_lo is lost with
LadderUnlessLost ==
  IF game \in OneShot THEN outcome \in {"WON", "DROPPED"} ELSE outcome # "LOST"
Payable ==
  CASE game \in OneShot \ {"plinko"} -> outcome = "WON"
    [] game = "plinko" -> outcome = "DROPPED"
    [] game \in Trapped -> outcome # "DEAD"
    [] game = "hi_lo" -> outcome # "LOST"
    [] game = "crash" -> outcome # "CRASHED"
PayoutAt(bet, mult) ==
  IF game \in {"crash", "plinko"} THEN rawPayout(bet, mult)
  ELSE payoutWithEdge(bet, mult)
Payout(bet) == IF Payable THEN PayoutAt(bet, bps) ELSE 0

---------------------------------------------------------------------------
(* Properties.                                                             *)

Outcomes == {"IN_PROGRESS", "CASHED_OUT", "DEAD", "LOST", "WON", "CRASHED", "DROPPED"}
\* Types of the metadata; the multiplier is an integer number of basis points.
TypeOK ==
  /\ game \in Games /\ size \in SizesOf(game)
  /\ game \in Trapped => secret \subseteq 0 .. size - 1 /\ passed \subseteq 0 .. size - 1
  /\ game \in OneShot => passed \subseteq Offers(game, size)
  /\ game \in OneShot => IF game \in DrawnLate /\ passed = {} THEN secret = "not drawn"
                         ELSE secret \in Draws(game, size, 0)
  /\ game = "crash" => secret \in CrashPoints
  /\ game = "hi_lo" => secret.card \in Ranks /\ secret.left \in [Ranks -> 0 .. Copies]
  /\ bps \in Nat
  /\ outcome \in Outcomes /\ status \in {"CONTINUE", "WIN", "LOSE"}

\* the secrets this session could have had, as likely as its own
Alternatives == Draws(game, size, IF game \in Trapped THEN Cardinality(secret) ELSE 0)
\* the multiplier the moves made so far would have been worth with another one
Worth(draw) ==
  IF game \in Trapped THEN (IF passed \cap draw = {} THEN bps ELSE 0)
  ELSE Prize(game, size, CHOOSE c \in passed : TRUE, draw)
Played == passed # {} /\ game \in Trapped \cup OneShot
\* the sum over all of them of what a function gives each: every value it takes,
\* times the secrets it takes it for
OverAlternatives(f) ==
  LET values == {f[draw] : draw \in Alternatives}
      share == [v \in values |-> v * Cardinality({draw \in Alternatives : f[draw] = v})]
  IN MapThenSumSet(LAMBDA v : share[v], values)

\* payout.js:11 "97% RTP (3% house edge)": whatever the player chooses, pulls or
\* reveals and wherever he stops, what the bet returns over all the equally
\* likely secrets is at most 97% of it (98.5% for plinko's table).
HouseKeepsItsEdge ==
  Played => \A bet \in Stakes :
    1000 * OverAlternatives([draw \in Alternatives |-> PayoutAt(bet, Worth(draw))])
      <= (IF game = "plinko" THEN 985 ELSE 970) * bet * Cardinality(Alternatives)

\* Before the edge the multipliers are the exact odds, short of the points the
\* divisions round away: less than one basis point of the stake per move.
PlayersGetFairOdds ==
  Played /\ game # "plinko" =>
    LET total == OverAlternatives([draw \in Alternatives |-> Worth(draw)])
        even == Cardinality(Alternatives)
    IN (BPS_SCALE - Cardinality(passed)) * even <= total /\ total <= BPS_SCALE * even

\* A game in progress has a move left that can go on, or can end it: roulette
\* has a bullet ahead ("No chambers remaining" and the forced win are
\* unreachable, russianRoulette.js:105 and :133), minesweeper a safe tile, hi_lo
\* a card; so no division by zero and no read past the deck.
OpenGamesCanMove ==
  outcome = "IN_PROGRESS" =>
    /\ game = "russian_roulette" =>
         \E i \in secret : i >= Cardinality(passed)
    /\ game = "minesweeper" => (0 .. size - 1) \ (passed \cup secret) # {}
    /\ game = "hi_lo" => CardsLeft # {}

\* processStep tells a player whether he lost, and settle, which reads only the
\* metadata (then or at a later /settle), agrees: nothing after a losing step, a
\* payout after a winning one, and a round is settled by the step that ends it.
\* Whoever can be paid survived: he opened no loaded chamber and no mine, left
\* before the crash point, or made the one choice and won it on the draw.
PaysOnlySurvivors ==
  /\ status = "LOSE" => \A bet \in Stakes : Payout(bet) = 0
  /\ status = "WIN" => Payable
  /\ status = "CONTINUE" <=> outcome = "IN_PROGRESS"
  /\ (\E bet \in Stakes : Payout(bet) > 0) =>
       /\ game \in Trapped => passed \cap secret = {}
       /\ game = "crash" => bps < secret \/ bps = BPS_SCALE
       /\ game \in OneShot => passed # {} /\ bps = Worth(secret) /\ bps > 0

\* crash.js:16 "house edge baked in": ticking up to a multiplier and cashing out
\* there returns no more than the bet. The crash point is above it with
\* probability 97% x (MAX_CRASH_BPS - bps) / (MAX_CRASH_BPS - START_BPS); the
\* divisions round the return down.
PerMilleAbove(m) == (97 * (MAX_CRASH_BPS - m)) \div ((MAX_CRASH_BPS - BPS_SCALE) \div 10)
CrashKeepsItsEdge ==
  game = "crash" /\ bps > BPS_SCALE =>
    (bps * PerMilleAbove(bps)) \div 1000 <= BPS_SCALE
=============================================================================
