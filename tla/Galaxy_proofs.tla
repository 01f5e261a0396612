---------------------------- MODULE Galaxy_proofs ----------------------------
(***************************************************************************)
(* No colony of the galaxy changes hands, and the player's list of         *)
(* colonies is the map's: for every galaxy and every course of the game.   *)
(*                                                                         *)
(* Both rest on one fact: when a fleet lands it is itself counted in the   *)
(* defense, so it is never stronger than that (NeverStronger).  For that   *)
(* the fleets in `arrivals' must have landed, and stay as they are until   *)
(* the last of them is resolved (ArrivalsOK).                              *)
(*                                                                         *)
(* Then the types: a faction that strikes has a nearest goal (FiniteFirst);*)
(* the bound on fleets: erasing gives those that stay new places, one each;*)
(* and the sensors: a faction whose turn is over has seen what is around   *)
(* its own colonies (SensorInv).                                           *)
(***************************************************************************)
EXTENDS Galaxy, Functions, FiniteSetTheorems, WellFoundedInduction, TLAPS

StarType == [owner : {Neutral, Player} \cup FactionIds, population : Nat, defense : Nat]

IsFleet(f) == /\ f = [faction |-> f.faction, target |-> f.target,
                      strength |-> f.strength, turns_left |-> f.turns_left]
              /\ f.faction \in FactionIds
              /\ f.strength \in Nat

IsFleetList(list) == /\ list = [i \in DOMAIN list |-> list[i]]
                     /\ IsFiniteSet(DOMAIN list)
                     /\ \A i \in DOMAIN list : IsFleet(list[i])

StarsOK == /\ sky \in Skies
           /\ DOMAIN stars \subseteq Worlds
           /\ stars \in [DOMAIN stars -> StarType]

ArrivalsOK == /\ arrivals \subseteq DOMAIN fleets
              /\ \A i \in arrivals : fleets[i].turns_left = 0
              /\ phase # "land" => arrivals = {}

IInv == StarsOK /\ IsFleetList(fleets) /\ ArrivalsOK

-----------------------------------------------------------------------------
\* A fleet on the ground is part of the strength of the fleets there.
LEMMA StrengthCounts ==
  ASSUME IInv, NEW S \in SUBSET DOMAIN fleets, NEW i \in S
  PROVE  Strength(S) \in Nat /\ fleets[i].strength <= Strength(S)
<1>. DEFINE Ships(j) == {j} \X (1..fleets[j].strength)
            All == {Ships(j) : j \in S}
            f == [j \in S |-> Ships(j)]
<1>1. IsFiniteSet(S)
  BY FS_Subset DEF IInv, IsFleetList
<1>2. f \in Surjection(S, All)
  BY DEF Surjection
<1>3. IsFiniteSet(All)
  BY <1>1, <1>2, FS_Surjection
<1>4. ASSUME NEW j \in S
      PROVE  IsFiniteSet(Ships(j)) /\ Cardinality(Ships(j)) = fleets[j].strength
  <2>1. fleets[j].strength \in Nat
    BY DEF IInv, IsFleetList, IsFleet
  <2>2. \A n \in Nat : IsFiniteSet(1..n) /\ Cardinality(1..n) = n
    BY FS_Interval
  <2>3. IsFiniteSet({j}) /\ Cardinality({j}) = 1
    BY FS_Singleton
  <2>4. /\ IsFiniteSet({j} \X (1..fleets[j].strength))
        /\ Cardinality({j} \X (1..fleets[j].strength))
             = Cardinality({j}) * Cardinality(1..fleets[j].strength)
    BY <2>1, <2>2, <2>3, FS_Product, Zenon
  <2>5. 1 * fleets[j].strength = fleets[j].strength
    BY <2>1
  <2>. QED
    BY <2>1, <2>2, <2>3, <2>4, <2>5, Zenon
<1>5. IsFiniteSet(UNION All)
  BY <1>3, <1>4, FS_UNION
<1>6. Ships(i) \subseteq UNION All
  OBVIOUS
<1>7. Cardinality(Ships(i)) <= Cardinality(UNION All) /\ Cardinality(UNION All) \in Nat
  BY <1>5, <1>6, FS_Subset, FS_CardinalityType
<1>8. Strength(S) = Cardinality(UNION All)
  BY DEF Strength
<1>. QED
  BY <1>4, <1>7, <1>8

\* get_system adds wild systems and leaves the others alone.
LEMMA MaterializedKeeps ==
  ASSUME StarsOK, NEW S
  PROVE  /\ DOMAIN Materialized(S) = DOMAIN stars \cup (S \cap Worlds)
         /\ DOMAIN Materialized(S) \subseteq Worlds
         /\ Materialized(S) \in [DOMAIN Materialized(S) -> StarType]
         /\ \A w \in DOMAIN stars : Materialized(S)[w] = stars[w]
         /\ \A w \in DOMAIN Materialized(S) \ DOMAIN stars : Materialized(S)[w] = Wild
<1>1. Wild \in StarType
  BY DEF Wild, StarType, Neutral, Player
<1>. QED
  BY <1>1 DEF StarsOK, Materialized

\* fleets_.push_back of a fleet gives a list of fleets.
LEMMA JoinedFleets ==
  ASSUME NEW list, IsFleetList(list), NEW fleet, IsFleet(fleet)
  PROVE  IsFleetList(Joined(list, fleet))
<1>1. IsFiniteSet(DOMAIN list \cup {Cardinality(DOMAIN list) + 1})
  BY FS_AddElement DEF IsFleetList
<1>. QED
  BY <1>1, Zenon DEF Joined, IsFleetList

\* Removing fleets leaves a list of fleets.
LEMMA KeptFleets ==
  ASSUME IsFleetList(fleets), NEW S \in SUBSET DOMAIN fleets
  PROVE  IsFleetList(Kept(S))
<1>. DEFINE Rank(i) == Cardinality({j \in S : j <= i})
            Ranks == {Rank(i) : i \in S}
            f == [i \in S |-> Rank(i)]
<1>1. IsFiniteSet(S)
  BY FS_Subset DEF IsFleetList
<1>2. f \in Surjection(S, Ranks)
  BY DEF Surjection
<1>3. IsFiniteSet(Ranks)
  BY <1>1, <1>2, FS_Surjection
<1>4. Kept(S) = [n \in Ranks |-> fleets[CHOOSE i \in S : Rank(i) = n]]
  BY DEF Kept
<1>5. ASSUME NEW n \in Ranks PROVE (CHOOSE i \in S : Rank(i) = n) \in S
  OBVIOUS
<1>6. \A n \in Ranks : IsFleet(fleets[CHOOSE i \in S : Rank(i) = n])
  BY <1>5 DEF IsFleetList
<1>. HIDE DEF Ranks, Rank
<1>. QED
  BY <1>3, <1>4, <1>6 DEF IsFleetList

\* The attacker is part of the defense that it meets.
LEMMA NeverStronger ==
  ASSUME IInv, NEW i \in arrivals, fleets[i].target \in DOMAIN stars
  PROVE  ~(fleets[i].strength > DefenseAt(fleets[i].target))
<1>. DEFINE w == fleets[i].target
<1>1. i \in Landed(w) /\ Landed(w) \subseteq DOMAIN fleets
  BY DEF IInv, ArrivalsOK, Landed
<1>2. Strength(Landed(w)) \in Nat /\ fleets[i].strength <= Strength(Landed(w))
  BY <1>1, StrengthCounts
<1>3. stars[w].defense \in Nat /\ stars[w].population \in Nat
  BY DEF IInv, StarsOK, StarType
<1>4. stars[w].population \div 5 \in Nat
  BY <1>3
<1>5. fleets[i].strength \in Nat
  BY DEF IInv, ArrivalsOK, IsFleetList, IsFleet
<1>. QED
  BY <1>2, <1>3, <1>4, <1>5 DEF DefenseAt

\* Saturating counts are natural numbers.
LEMMA CountsOK ==
  /\ \A n \in Nat : Bounded(n) \in Nat
  /\ \A n, loss \in Nat : Less(n, loss) \in Nat
BY GalaxyAssumption DEF Bounded, Less

\* What a landing makes of a system: an owner is kept, a new one is a faction.
LEMMA LandingKeepsOwner ==
  ASSUME IInv, NEW i \in arrivals, NEW seen, seen = Materialized({fleets[i].target}),
         fleets[i].target \in DOMAIN seen
  PROVE  LET w == fleets[i].target
             star == AfterLanding(seen, w, fleets[i])
         IN  /\ star \in StarType
             /\ seen[w].owner # Neutral => star.owner = seen[w].owner
             /\ star.owner = Player => seen[w].owner = Player
<1>. DEFINE w == fleets[i].target
            fleet == fleets[i]
            star == AfterLanding(seen, w, fleet)
<1>0. /\ seen \in [DOMAIN seen -> StarType]
      /\ \A v \in DOMAIN seen \ DOMAIN stars : seen[v] = Wild
  BY MaterializedKeeps, Zenon DEF IInv
<1>1. seen[w] \in StarType
  BY <1>0
<1>2. fleet.faction \in FactionIds /\ fleet.strength \in Nat
  BY DEF IInv, ArrivalsOK, IsFleetList, IsFleet
<1>3. fleet.strength * 2 \in Nat /\ fleet.strength * 3 \in Nat /\ fleet.strength \div 2 \in Nat
  BY <1>2
<1>4. CASE seen[w].owner = Neutral
  <2>1. CASE Settleable(w)
    <3>1. star = [owner |-> fleet.faction, population |-> Bounded(fleet.strength * 2),
                  defense |-> Bounded(2)]
      BY <1>4, <2>1, <1>2 DEF AfterLanding, Neutral, FactionIds
    <3>2. Bounded(fleet.strength * 2) \in Nat /\ Bounded(2) \in Nat
      BY <1>3, CountsOK, Zenon
    <3>3. fleet.faction \in {Neutral, Player} \cup FactionIds /\ fleet.faction # Player
      BY <1>2 DEF FactionIds, Player
    <3>4. star \in StarType /\ star.owner # Player
      BY <3>1, <3>2, <3>3 DEF StarType
    <3>. QED
      BY <1>4, <3>4
  <2>2. CASE ~Settleable(w)
    <3>1. star = seen[w]
      BY <1>4, <2>2, <1>2 DEF AfterLanding, Neutral, FactionIds
    <3>. QED
      BY <1>1, <3>1
  <2>. QED
    BY <2>1, <2>2
<1>5. CASE seen[w].owner = fleet.faction
  <2>1. star = [seen[w] EXCEPT !.defense = Bounded(@ + fleet.strength)]
    BY <1>5, <1>2 DEF AfterLanding, Neutral, FactionIds
  <2>2. seen[w].defense \in Nat
    BY <1>1 DEF StarType
  <2>3. seen[w].defense + fleet.strength \in Nat
    BY <1>2, <2>2
  <2>4. Bounded(seen[w].defense + fleet.strength) \in Nat
    BY <2>3, CountsOK, Zenon
  <2>. QED
    BY <1>1, <2>1, <2>4 DEF StarType
<1>6. CASE seen[w].owner \notin {Neutral, fleet.faction}
  <2>1. w \in DOMAIN stars
    BY SMTT(30), <1>0, <1>6 DEF Wild
  <2>2. ~(fleet.strength > DefenseAt(w))
    BY <2>1, NeverStronger
  <2>3. star = [seen[w] EXCEPT
                  !.defense = Less(@, fleet.strength \div 2),
                  !.population = IF seen[w].owner = Player THEN Less(@, fleet.strength * 3)
                                                           ELSE @]
    BY <1>6, <2>2 DEF AfterLanding
  <2>4. seen[w].defense \in Nat /\ seen[w].population \in Nat
    BY <1>1 DEF StarType
  <2>5. Less(seen[w].defense, fleet.strength \div 2) \in Nat
        /\ Less(seen[w].population, fleet.strength * 3) \in Nat
    BY <1>3, <2>4, CountsOK
  <2>. QED
    BY <1>1, <2>3, <2>4, <2>5 DEF StarType
<1>. QED
  BY <1>4, <1>5, <1>6

-----------------------------------------------------------------------------
\* What every step but the player's colonization does with the owners.
OwnersKept == /\ \A w \in DOMAIN stars : stars[w].owner # Neutral =>
                   w \in DOMAIN stars' /\ stars'[w].owner = stars[w].owner
              /\ \A w \in DOMAIN stars' : stars'[w].owner = Player =>
                   w \in DOMAIN stars /\ stars[w].owner = Player

\* A step that only materializes systems.
LEMMA SweepStep ==
  ASSUME StarsOK, NEW S, stars' = Materialized(S), sky' = sky
  PROVE  StarsOK' /\ OwnersKept
<1>1. /\ DOMAIN stars' = DOMAIN stars \cup (S \cap Worlds)
      /\ DOMAIN stars' \subseteq Worlds
      /\ stars' \in [DOMAIN stars' -> StarType]
      /\ \A w \in DOMAIN stars : stars'[w] = stars[w]
      /\ \A w \in DOMAIN stars' \ DOMAIN stars : stars'[w] = Wild
  BY MaterializedKeeps, Zenon
<1>. QED
  BY <1>1 DEF StarsOK, OwnersKept, Wild, Neutral, Player

\* The landing of one fleet keeps the invariant and conquers nothing.
LEMMA LandStep ==
  ASSUME IInv, Land
  PROVE  IInv' /\ OwnersKept
<1>1. PICK i \in arrivals :
        /\ LET fleet == fleets[i]
               seen  == Materialized({fleet.target})
           IN  stars' = [w \in DOMAIN seen |->
                           IF w = fleet.target THEN AfterLanding(seen, w, fleet) ELSE seen[w]]
        /\ fleets' = [fleets EXCEPT ![i].strength = 0]
        /\ arrivals' = arrivals \ {i}
  BY DEF Land
<1>. DEFINE seen == Materialized({fleets[i].target})
<1>2. /\ DOMAIN seen \subseteq Worlds /\ seen \in [DOMAIN seen -> StarType]
      /\ DOMAIN stars \subseteq DOMAIN seen
      /\ \A w \in DOMAIN stars : seen[w] = stars[w]
      /\ \A w \in DOMAIN seen \ DOMAIN stars : seen[w] = Wild
  BY MaterializedKeeps DEF IInv
<1>3. \A w \in DOMAIN seen : w = fleets[i].target =>
        LET star == AfterLanding(seen, w, fleets[i])
        IN  /\ star \in StarType
            /\ seen[w].owner # Neutral => star.owner = seen[w].owner
            /\ star.owner = Player => seen[w].owner = Player
  BY LandingKeepsOwner
<1>. HIDE DEF seen
<1>4. stars' = [w \in DOMAIN seen |->
                  IF w = fleets[i].target THEN AfterLanding(seen, w, fleets[i]) ELSE seen[w]]
  BY <1>1 DEF seen
<1>5. StarsOK' /\ OwnersKept
  <2>1. DOMAIN stars' = DOMAIN seen /\ stars' = [w \in DOMAIN stars' |-> stars'[w]]
    BY <1>4
  <2>2. ASSUME NEW w \in DOMAIN seen
        PROVE  /\ stars'[w] \in StarType
               /\ seen[w].owner # Neutral => stars'[w].owner = seen[w].owner
               /\ stars'[w].owner = Player => seen[w].owner = Player
    BY <1>2, <1>3, <1>4
  <2>3. sky' = sky /\ StarsOK
    BY DEF Land, IInv
  <2>4. StarsOK'
    BY <1>2, <2>1, <2>2, <2>3 DEF StarsOK
  <2>5. OwnersKept
    BY <1>2, <2>1, <2>2 DEF OwnersKept, Wild, Neutral, Player
  <2>. QED
    BY <2>4, <2>5
<1>6. IsFleetList(fleets')
  <2>1. /\ DOMAIN fleets' = DOMAIN fleets
        /\ fleets' = [j \in DOMAIN fleets' |-> fleets'[j]]
    BY <1>1
  <2>2. ASSUME NEW j \in DOMAIN fleets PROVE IsFleet(fleets'[j])
    <3>1. IsFleet(fleets[j])
      BY DEF IInv, IsFleetList
    <3>2. fleets'[j] = IF j = i THEN [fleets[j] EXCEPT !.strength = 0] ELSE fleets[j]
      BY <1>1
    <3>. QED
      BY <3>1, <3>2 DEF IsFleet
  <2>. QED
    BY <2>1, <2>2 DEF IInv, IsFleetList
<1>7. ArrivalsOK'
  BY <1>1 DEF IInv, ArrivalsOK, IsFleetList, IsFleet, Land
<1>. QED
  BY <1>5, <1>6, <1>7 DEF IInv

\* Neither does the flight of the fleets.
LEMMA AdvanceStep ==
  ASSUME IInv, Advance
  PROVE  IInv' /\ OwnersKept
<1>1. StarsOK' /\ OwnersKept
  BY DEF IInv, StarsOK, OwnersKept, Advance
<1>2. /\ DOMAIN fleets' = DOMAIN fleets
      /\ \A i \in DOMAIN fleets : fleets'[i] = [fleets[i] EXCEPT !.turns_left = Nearer(@)]
      /\ fleets' = [i \in DOMAIN fleets' |-> fleets'[i]]
  BY DEF Advance
<1>3. IsFleetList(fleets')
  <2>1. ASSUME NEW i \in DOMAIN fleets PROVE IsFleet(fleets'[i])
    <3>1. IsFleet(fleets[i])
      BY DEF IInv, IsFleetList
    <3>. QED
      BY <1>2, <3>1 DEF IsFleet
  <2>2. IsFiniteSet(DOMAIN fleets')
    BY <1>2 DEF IInv, IsFleetList
  <2>3. \A i \in DOMAIN fleets' : IsFleet(fleets'[i])
    BY <1>2, <2>1
  <2>. QED
    BY <1>2, <2>2, <2>3 DEF IsFleetList
<1>4. ArrivalsOK'
  BY <1>2 DEF Advance, ArrivalsOK
<1>. QED
  BY <1>1, <1>3, <1>4 DEF IInv

\* The automaton of a faction adds a fleet or redirects those there are.
LEMMA ActStep ==
  ASSUME IInv, NEW fi \in FactionIds, TickFaction(fi)
  PROVE  IInv' /\ OwnersKept
<1>1. PICK state \in {"EXPLORE", "EXPAND", "WAR", "RETREAT"} : Acts(fi, state)
  BY DEF TickFaction, Explore, Expand, War, Regroup
<1>2. phase = "act" /\ phase' # "land" /\ arrivals = {} /\ arrivals' = {}
  BY <1>1 DEF Acts, IInv, ArrivalsOK
<1>3. ArrivalsOK'
  BY <1>2 DEF ArrivalsOK
<1>4. ASSUME NEW goal, NEW strength \in Nat, NEW travel
      PROVE  IsFleetList(Launched(fi, goal, strength, travel))
  <2>. DEFINE fleet == [faction |-> fi, target |-> goal, strength |-> strength,
                        turns_left |-> IF travel > 1 THEN travel ELSE 1]
  <2>1. IsFleet(fleet)
    BY DEF IsFleet
  <2>. QED
    BY <2>1, JoinedFleets DEF IInv, Launched
<1>5. StarsOK /\ IsFleetList(fleets)
  BY DEF IInv
<1>6. CASE Explore(fi)
  <2>1. StarsOK' /\ OwnersKept
    BY <1>5, <1>6, SweepStep DEF Explore, Swept, Acts
  <2>2. IsFleetList(fleets')
    BY <1>4, <1>5, <1>6 DEF Explore
  <2>. QED
    BY <1>3, <2>1, <2>2 DEF IInv
<1>7. CASE Expand(fi)
  <2>. DEFINE seen == Swept(fi)
  <2>1. /\ DOMAIN seen \subseteq Worlds /\ seen \in [DOMAIN seen -> StarType]
        /\ DOMAIN stars \subseteq DOMAIN seen
        /\ \A w \in DOMAIN stars : seen[w] = stars[w]
        /\ \A w \in DOMAIN seen \ DOMAIN stars : seen[w] = Wild
    BY <1>5, MaterializedKeeps DEF Swept
  <2>. HIDE DEF seen
  <2>2. stars' = [w \in DOMAIN seen |->
                    IF w \in Own(fi)
                    THEN [seen[w] EXCEPT !.population = Bounded(@ + 1 + sky[w].growth),
                                         !.defense = Bounded(@ + 1)]
                    ELSE seen[w]]
    BY <1>7 DEF Expand, seen
  <2>3. ASSUME NEW w \in DOMAIN seen
        PROVE  stars'[w] \in StarType /\ stars'[w].owner = seen[w].owner
    <3>1. seen[w] \in StarType
      BY <2>1
    <3>2. seen[w].population \in Nat /\ seen[w].defense \in Nat /\ sky[w].growth \in Nat
      BY <1>5, <2>1, <3>1, GalaxyAssumption DEF StarsOK, StarType
    <3>3. seen[w].population + 1 + sky[w].growth \in Nat /\ seen[w].defense + 1 \in Nat
      BY <3>2
    <3>4. /\ Bounded(seen[w].population + 1 + sky[w].growth) \in Nat
          /\ Bounded(seen[w].defense + 1) \in Nat
      BY <3>3, CountsOK, Zenon
    <3>. QED
      BY <2>2, <3>1, <3>4 DEF StarType
  <2>4. DOMAIN stars' = DOMAIN seen /\ stars' = [w \in DOMAIN stars' |-> stars'[w]]
    BY <2>2
  <2>5. sky' = sky
    BY <1>1 DEF Acts
  <2>6. StarsOK' /\ OwnersKept
    BY <1>5, <2>1, <2>3, <2>4, <2>5 DEF StarsOK, OwnersKept, Wild, Neutral, Player
  <2>7. IsFleetList(fleets')
    BY <1>4, <1>5, <1>7 DEF Expand
  <2>. QED
    BY <1>3, <2>6, <2>7 DEF IInv
<1>8. CASE War(fi)
  <2>1. StarsOK' /\ OwnersKept
    BY <1>5, <1>8, SweepStep DEF War, Swept, Acts
  <2>2. Cardinality(Own(fi)) \in Nat
    <3>1. Own(fi) \subseteq Worlds
      BY <1>5 DEF StarsOK, Own
    <3>. QED
      BY <3>1, GalaxyAssumption, FS_Subset, FS_CardinalityType
  <2>3. 6 + 2 * Cardinality(Own(fi)) \in Nat
    BY <2>2
  <2>4. IsFleetList(fleets')
    BY <1>4, <1>5, <1>8, <2>3 DEF War
  <2>. QED
    BY <1>3, <2>1, <2>4 DEF IInv
<1>9. CASE Regroup(fi)
  <2>. DEFINE base  == IF Stepped(fi).timer = 0 THEN Recalled(fi) ELSE fleets
              guard == [faction |-> fi, target |-> <<Home[fi][1] + 1, Home[fi][2]>>,
                        strength |-> 6, turns_left |-> 2]
  <2>1. StarsOK' /\ OwnersKept
    BY <1>5, <1>9, SweepStep DEF Regroup, Swept, Acts
  <2>2. fleets' = IF Cardinality(Of(fi)) < 4 THEN Joined(base, guard) ELSE base
    BY <1>9 DEF Regroup
  <2>3. IsFleetList(Recalled(fi))
    <3>1. DOMAIN Recalled(fi) = DOMAIN fleets
          /\ Recalled(fi) = [i \in DOMAIN Recalled(fi) |-> Recalled(fi)[i]]
      BY DEF Recalled
    <3>2. ASSUME NEW i \in DOMAIN fleets PROVE IsFleet(Recalled(fi)[i])
      <4>1. IsFleet(fleets[i])
        BY <1>5 DEF IsFleetList
      <4>. QED
        BY <4>1 DEF IsFleet, Recalled
    <3>. QED
      BY <1>5, <3>1, <3>2 DEF IsFleetList
  <2>4. IsFleetList(base) /\ IsFleet(guard)
    BY <1>5, <2>3 DEF IsFleet
  <2>5. IsFleetList(fleets')
    BY <2>2, <2>4, JoinedFleets
  <2>. QED
    BY <1>3, <2>1, <2>5 DEF IInv
<1>. QED
  BY <1>6, <1>7, <1>8, <1>9 DEF TickFaction

\* Nor the removal of the spent ones.
LEMMA CleanStep ==
  ASSUME IInv, Clean
  PROVE  IInv' /\ OwnersKept
<1>1. StarsOK' /\ OwnersKept
  BY DEF IInv, StarsOK, OwnersKept, Clean
<1>2. IsFleetList(fleets')
  BY KeptFleets DEF IInv, Clean
<1>3. ArrivalsOK'
  BY DEF IInv, ArrivalsOK, Clean
<1>. QED
  BY <1>1, <1>2, <1>3 DEF IInv

\* The commands but for the one that founds a colony, and the end of the input.
LEMMA CommandStep ==
  ASSUME IInv, (\E p \in Reach : Move(p)) \/ Wait \/ Quit \/ EndOfInput
  PROVE  IInv' /\ OwnersKept
<1>1. /\ UNCHANGED <<sky, fleets, arrivals>>
      /\ phase = "command" /\ phase' # "land"
  BY DEF Move, Wait, Quit, EndOfInput, Commanded
<1>2. StarsOK' /\ OwnersKept
  <2>1. CASE \E p \in Reach : Move(p)
    BY <1>1, <2>1, SweepStep DEF Move, IInv
  <2>2. CASE Wait \/ Quit \/ EndOfInput
    BY <1>1, <2>2 DEF Wait, Quit, EndOfInput, IInv, StarsOK, OwnersKept
  <2>. QED
    BY <2>1, <2>2
<1>. QED
  BY <1>1, <1>2 DEF IInv, ArrivalsOK

\* The player founds a colony where nobody has one, and notes it in the list.
LEMMA ColonizeStep ==
  ASSUME IInv, Colonize
  PROVE  /\ IInv'
         /\ \A w \in DOMAIN stars : stars[w].owner # Neutral =>
              w \in DOMAIN stars' /\ stars'[w].owner = stars[w].owner
         /\ empire \in Seq(Worlds) => empire' \in Seq(Worlds)
         /\ empire \in Seq(Worlds) /\ EmpireExact => EmpireExact'
<1>. DEFINE seen == Materialized({at})
<1>1. /\ DOMAIN seen = DOMAIN stars \cup {at} /\ DOMAIN seen \subseteq Worlds
      /\ seen \in [DOMAIN seen -> StarType]
      /\ \A w \in DOMAIN stars : seen[w] = stars[w]
      /\ \A w \in DOMAIN seen \ DOMAIN stars : seen[w] = Wild
  <2>1. at \in Worlds /\ {at} \cap Worlds = {at}
    BY DEF Colonize
  <2>2. /\ DOMAIN seen = DOMAIN stars \cup ({at} \cap Worlds)
        /\ DOMAIN seen \subseteq Worlds
        /\ seen \in [DOMAIN seen -> StarType]
        /\ \A w \in DOMAIN stars : seen[w] = stars[w]
        /\ \A w \in DOMAIN seen \ DOMAIN stars : seen[w] = Wild
    BY MaterializedKeeps, Zenon DEF IInv
  <2>. QED
    BY <2>1, <2>2, Zenon
<1>. HIDE DEF seen
<1>2. IF seen[at].owner = Neutral /\ ~sky[at].black
      THEN /\ stars' = [seen EXCEPT ![at] = [owner |-> Player, population |-> Bounded(10),
                                             defense |-> Bounded(3)]]
           /\ empire' = Append(empire, at)
      ELSE stars' = seen /\ UNCHANGED empire
  BY DEF Colonize, seen
<1>3. [owner |-> Player, population |-> Bounded(10), defense |-> Bounded(3)] \in StarType
  BY CountsOK DEF StarType
<1>4. /\ UNCHANGED <<sky, fleets, arrivals>>
      /\ phase = "command" /\ phase' # "land"
  BY DEF Colonize, Commanded
<1>5. StarsOK'
  BY <1>1, <1>2, <1>3, <1>4 DEF StarsOK, IInv
<1>6. ASSUME empire \in Seq(Worlds), EmpireExact PROVE EmpireExact'
  <2>1. CASE stars' = seen /\ UNCHANGED empire
    BY <1>1, <1>6, <2>1 DEF EmpireExact, Own, Wild, Neutral, Player
  <2>2. CASE seen[at].owner = Neutral /\ ~sky[at].black
    <3>1. at \notin Own(Player) /\ Own(Player)' = Own(Player) \cup {at}
      BY <1>1, <1>2, <2>2 DEF Own, Wild, Neutral, Player
    <3>2. at \in Worlds /\ empire' = Append(empire, at)
      BY <1>2, <2>2 DEF Colonize
    <3>3. /\ DOMAIN empire' = DOMAIN empire \cup {Len(empire) + 1}
          /\ empire'[Len(empire) + 1] = at
          /\ Len(empire) + 1 \notin DOMAIN empire
          /\ \A n \in DOMAIN empire : empire'[n] = empire[n]
      BY <1>6, <3>2
    <3>4. {empire'[n] : n \in DOMAIN empire'} = {empire[n] : n \in DOMAIN empire} \cup {at}
      BY <3>3
    <3>5. \A n \in DOMAIN empire : empire[n] # at
      BY <1>6, <3>1 DEF EmpireExact
    <3>. QED
      BY <1>6, <3>1, <3>3, <3>4, <3>5 DEF EmpireExact
  <2>. QED
    BY <1>2, <2>1, <2>2
<1>8. ASSUME empire \in Seq(Worlds) PROVE empire' \in Seq(Worlds)
  BY <1>2, <1>8 DEF Colonize
<1>7. \A w \in DOMAIN stars : stars[w].owner # Neutral =>
        w \in DOMAIN stars' /\ stars'[w].owner = stars[w].owner
  BY <1>1, <1>2
<1>. QED
  BY <1>4, <1>5, <1>6, <1>7, <1>8 DEF IInv, ArrivalsOK

-----------------------------------------------------------------------------
\* The invariant holds when the game begins.
LEMMA IInvInit ==
  ASSUME Init
  PROVE  IInv /\ EmpireExact /\ empire \in Seq(Worlds)
<1>1. \A w : (\E fi \in FactionIds : w = Home[fi]) =>
        (CHOOSE fi \in FactionIds : w = Home[fi]) \in FactionIds
  OBVIOUS
<1>2. Bounded(20) \in Nat /\ Bounded(5) \in Nat
  BY CountsOK
<1>. DEFINE D == InRange(<<0, 0>>, 6) \cup {Home[fi] : fi \in FactionIds}
            star(w) == IF \E fi \in FactionIds : w = Home[fi]
                       THEN [owner |-> CHOOSE fi \in FactionIds : w = Home[fi],
                             population |-> Bounded(20), defense |-> Bounded(5)]
                       ELSE Wild
<1>3. \A w : star(w) \in StarType /\ star(w).owner # Player
  BY <1>1, <1>2 DEF StarType, Wild, Neutral, Player, FactionIds
<1>4. D \subseteq Worlds
  BY HomeAssumption DEF InRange
<1>5. stars = [w \in D |-> star(w)] /\ sky \in Skies
  BY DEF Init
<1>. HIDE DEF D, star
<1>6. StarsOK /\ Own(Player) = {}
  BY <1>3, <1>4, <1>5 DEF StarsOK, Own
<1>7. IsFleetList(fleets)
  <2>1. fleets = [i \in {} |-> 0]
    BY DEF Init
  <2>. QED
    BY <2>1, FS_EmptySet DEF IsFleetList
<1>. QED
  BY <1>6, <1>7 DEF IInv, ArrivalsOK, EmpireExact, Init

\* What every step keeps.
LEMMA IInvNext ==
  ASSUME IInv, [Next]_vars
  PROVE  /\ IInv'
         /\ \A w \in DOMAIN stars : stars[w].owner # Neutral =>
              w \in DOMAIN stars' /\ stars'[w].owner = stars[w].owner
         /\ empire \in Seq(Worlds) => empire' \in Seq(Worlds)
         /\ empire \in Seq(Worlds) /\ EmpireExact => EmpireExact'
<1>1. CASE Colonize
  BY <1>1, ColonizeStep
<1>2. CASE (\E p \in Reach : Move(p)) \/ Wait \/ Quit \/ EndOfInput \/ TickAutomata
  <2>1. IInv' /\ OwnersKept
    <3>1. CASE (\E p \in Reach : Move(p)) \/ Wait \/ Quit \/ EndOfInput
      BY <3>1, CommandStep
    <3>2. CASE Advance
      BY <3>2, AdvanceStep
    <3>3. CASE Land
      BY <3>3, LandStep
    <3>4. ASSUME NEW fi \in FactionIds, TickFaction(fi) PROVE IInv' /\ OwnersKept
      BY <3>4, ActStep
    <3>5. CASE Clean
      BY <3>5, CleanStep
    <3>. QED
      BY <1>2, <3>1, <3>2, <3>3, <3>4, <3>5 DEF TickAutomata
  <2>2. empire' = empire
    BY <1>2 DEF Move, Wait, Quit, EndOfInput, TickAutomata, Advance, Land, Clean,
                TickFaction, Explore, Expand, War, Regroup, Acts
  <2>3. Own(Player)' = Own(Player)
    BY <2>1 DEF OwnersKept, Own, Neutral, Player
  <2>. QED
    BY <2>1, <2>2, <2>3 DEF OwnersKept, EmpireExact
<1>3. CASE UNCHANGED vars
  BY <1>3 DEF vars, IInv, StarsOK, ArrivalsOK, IsFleetList, IsFleet, EmpireExact, Own
<1>. QED
  BY <1>1, <1>2, <1>3 DEF Next, Command, Unknown

\* No colony ever changes hands: for every galaxy, every course of the game and
\* every number of fleets.
THEOREM ColoniesKept == Spec => NoConquest
<1>1. Init => IInv
  BY IInvInit
<1>2. IInv /\ [Next]_vars => IInv'
  BY IInvNext
<1>3. IInv /\ [Next]_vars =>
        [\A w \in DOMAIN stars : stars[w].owner # Neutral =>
           w \in DOMAIN stars' /\ stars'[w].owner = stars[w].owner]_vars
  BY IInvNext
<1>. QED
  BY <1>1, <1>2, <1>3, PTL DEF Spec, NoConquest

\* The player's list of colonies is the map's, for every galaxy and every course
\* of the game.
THEOREM EmpireCorrect == Spec => []EmpireExact
<1>. DEFINE Inv == IInv /\ empire \in Seq(Worlds) /\ EmpireExact
<1>1. Init => Inv
  BY IInvInit
<1>2. Inv /\ [Next]_vars => Inv'
  BY IInvNext
<1>. QED
  BY <1>1, <1>2, PTL DEF Spec

-----------------------------------------------------------------------------
(* The rest of what the runs check of the fleets and of the map.           *)

\* Among natural numbers there is a least one.
LEMMA LeastNumber ==
  ASSUME NEW T, T \subseteq Nat, T # {}
  PROVE  \E n \in T : \A m \in T : n <= m
<1>. DEFINE less == OpToRel(<, Nat)
<1>1. IsWellFoundedOn(less, Nat)
  BY NatLessThanWellFounded
<1>2. \A m, n \in Nat : m < n => <<m, n>> \in less
  BY DEF OpToRel
<1>. HIDE DEF less
<1>3. PICK n \in T : \A m \in T : ~(<<m, n>> \in less)
  BY <1>1, WFMin
<1>4. ASSUME NEW m \in T PROVE n <= m
  <2>1. m \in Nat /\ n \in Nat /\ ~(m < n)
    BY <1>2, <1>3
  <2>. QED
    BY <2>1
<1>. QED
  BY <1>4

\* In a finite set there is a first element.
LEMMA FiniteFirst ==
  ASSUME NEW S, IsFiniteSet(S), S # {}, NEW R,
         \A a \in S : <<a, a>> \notin R,
         \A a, b, c \in S : <<a, b>> \in R /\ <<b, c>> \in R => <<a, c>> \in R
  PROVE  \E a \in S : \A b \in S : <<b, a>> \notin R
<1>. DEFINE before(a) == {b \in S : <<b, a>> \in R}
            counts == {Cardinality(before(a)) : a \in S}
<1>1. \A a \in S : IsFiniteSet(before(a)) /\ Cardinality(before(a)) \in Nat
  BY FS_Subset, FS_CardinalityType
<1>. HIDE DEF before
<1>2. counts \subseteq Nat
  BY <1>1
<1>3. counts # {}
  <2>1. PICK a \in S : TRUE
    OBVIOUS
  <2>2. Cardinality(before(a)) \in counts
    OBVIOUS
  <2>. QED
    BY <2>2
<1>4. PICK least \in counts : \A n \in counts : least <= n
  <2>. HIDE DEF counts
  <2>. QED
    BY <1>2, <1>3, LeastNumber
<1>5. PICK a \in S : least = Cardinality(before(a))
  OBVIOUS
<1>6. ASSUME NEW b \in S, <<b, a>> \in R PROVE FALSE
  <2>1. before(b) \subseteq before(a) /\ b \in before(a) /\ b \notin before(b)
    BY <1>6 DEF before
  <2>5. Cardinality(before(b)) \in counts
    OBVIOUS
  <2>6. least <= Cardinality(before(b))
    BY <1>4, <2>5
  <2>. HIDE DEF counts
  <2>2. before(b) \in SUBSET before(a) /\ before(b) # before(a)
    BY <2>1
  <2>3. Cardinality(before(b)) <= Cardinality(before(a))
        /\ Cardinality(before(b)) # Cardinality(before(a))
    BY <1>1, <2>2, FS_Subset
  <2>. QED
    BY <1>1, <1>5, <2>3, <2>6
<1>. QED
  BY <1>6

\* The distance between a world and the colony nearest to it.
LEMMA GapDistance ==
  ASSUME StarsOK, NEW fi, Own(fi) # {}, NEW w \in Int \X Int
  PROVE  Gap(fi, w) \in Nat
<1>. DEFINE distances == {Distance(o, w) : o \in Own(fi)}
<1>1. \A o \in Own(fi) : o \in Int \X Int
  BY GalaxyAssumption DEF StarsOK, Own
<1>2. \A o \in Own(fi) : Distance(o, w) \in Nat
  BY <1>1 DEF Distance, Abs
<1>3. distances \subseteq Nat
  BY <1>2
<1>4. distances # {}
  <2>1. PICK o \in Own(fi) : TRUE
    OBVIOUS
  <2>2. Distance(o, w) \in distances
    OBVIOUS
  <2>. QED
    BY <2>2
<1>5. PICK d \in distances : \A e \in distances : d <= e
  <2>. HIDE DEF distances
  <2>. QED
    BY <1>3, <1>4, LeastNumber
<1>6. \A o \in Own(fi) : d <= Distance(o, w)
  BY <1>5
<1>7. Gap(fi, w) \in distances
  BY <1>5, <1>6 DEF Gap
<1>. QED
  BY <1>3, <1>7

\* The nearest of some goals is one of them.
LEMMA NearestIsGoal ==
  ASSUME StarsOK, NEW fi, Own(fi) # {}, NEW S \in SUBSET Worlds, S # {}
  PROVE  Nearest(fi, S) \in S
<1>. DEFINE R == {p \in S \X S : \/ Gap(fi, p[1]) < Gap(fi, p[2])
                                 \/ Gap(fi, p[1]) = Gap(fi, p[2]) /\ KeyBefore(p[1], p[2])}
<1>1. /\ IsFiniteSet(S)
      /\ \A w \in S : w \in Int \X Int /\ w[1] \in Int /\ w[2] \in Int /\ w = <<w[1], w[2]>>
  BY GalaxyAssumption, FS_Subset
<1>2. \A w \in S : Gap(fi, w) \in Nat
  BY <1>1, GapDistance
<1>3. \A a, b \in S : <<a, b>> \in R <=> \/ Gap(fi, a) < Gap(fi, b)
                                         \/ Gap(fi, a) = Gap(fi, b) /\ KeyBefore(a, b)
  OBVIOUS
<1>. HIDE DEF R
<1>4. \A a \in S : <<a, a>> \notin R
  BY <1>1, <1>2, <1>3 DEF KeyBefore
<1>5. ASSUME NEW a \in S, NEW b \in S, NEW c \in S, <<a, b>> \in R, <<b, c>> \in R
      PROVE  <<a, c>> \in R
  <2>1. KeyBefore(a, b) /\ KeyBefore(b, c) => KeyBefore(a, c)
    BY <1>1 DEF KeyBefore
  <2>. QED
    BY <1>2, <1>3, <1>5, <2>1
<1>6. PICK w \in S : \A v \in S : <<v, w>> \notin R
  <2>1. IsFiniteSet(S) /\ S # {}
    BY <1>1
  <2>2. \A a, b, c \in S : <<a, b>> \in R /\ <<b, c>> \in R => <<a, c>> \in R
    BY <1>5
  <2>. QED
    BY <1>4, <2>1, <2>2, FiniteFirst
<1>7. ASSUME NEW v \in S \ {w}
      PROVE  \/ Gap(fi, w) < Gap(fi, v)
             \/ Gap(fi, w) = Gap(fi, v) /\ KeyBefore(w, v)
  <2>1. KeyBefore(w, v) \/ KeyBefore(v, w)
    BY <1>1 DEF KeyBefore
  <2>2. ~(Gap(fi, v) < Gap(fi, w)) /\ ~(Gap(fi, v) = Gap(fi, w) /\ KeyBefore(v, w))
    BY <1>3, <1>6
  <2>3. Gap(fi, v) \in Nat /\ Gap(fi, w) \in Nat
    BY <1>2
  <2>. QED
    BY <2>1, <2>2, <2>3
<1>. QED
  BY <1>7 DEF Nearest

States == {"EXPLORE", "EXPAND", "WAR", "RETREAT"}

FleetsNumbered == DOMAIN fleets = 1..Cardinality(DOMAIN fleets)

FlightsOK == \A i \in DOMAIN fleets : fleets[i].target \in Int \X Int /\ fleets[i].turns_left \in Nat

FactionsOK == factions \in [FactionIds -> [state : States, timer : 0..3, held : Nat]]

\* The fleets and the factions.
FleetInv == IInv /\ FleetsNumbered /\ FlightsOK /\ FactionsOK /\ FleetsBounded

RegroupPoint(fi) == <<Home[fi][1] + 1, Home[fi][2]>>

\* The fleets of a faction and its colonies can be counted.
LEMMA FiniteOwn ==
  ASSUME IInv, NEW fi
  PROVE  /\ IsFiniteSet(Of(fi)) /\ Cardinality(Of(fi)) \in Nat
         /\ IsFiniteSet(Own(fi)) /\ Cardinality(Own(fi)) \in Nat
<1>1. IsFiniteSet(DOMAIN fleets) /\ Of(fi) \in SUBSET DOMAIN fleets
  BY DEF IInv, IsFleetList, Of
<1>2. IsFiniteSet(Worlds) /\ Own(fi) \in SUBSET Worlds
  BY GalaxyAssumption DEF IInv, StarsOK, Own
<1>. QED
  BY <1>1, <1>2, FS_Subset, FS_CardinalityType

\* A faction in retreat has counted a turn.
LEMMA RetreatCounts ==
  ASSUME IInv, FactionsOK, NEW fi \in FactionIds
  PROVE  /\ Stepped(fi) \in [state : States, timer : 0..3, held : Nat]
         /\ Stepped(fi).state = "RETREAT" => Stepped(fi).timer # 0
<1>1. factions[fi].state \in States /\ factions[fi].timer \in 0..3
  BY DEF FactionsOK
<1>2. Roused(fi) \in States
  BY <1>1 DEF Roused, States
<1>3. Timer(fi) \in 0..3 /\ (Roused(fi) = "RETREAT" => Timer(fi) # 0)
  BY <1>1 DEF Timer
<1>4. Cardinality(Own(fi)) \in Nat
  BY FiniteOwn
<1>5. /\ Stepped(fi).state = IF Roused(fi) = "RETREAT" /\ Timer(fi) >= 3 THEN "EXPAND" ELSE Roused(fi)
      /\ Stepped(fi).timer = Timer(fi)
  BY DEF Stepped
<1>6. Stepped(fi) \in [state : States, timer : 0..3, held : Nat]
  BY <1>2, <1>3, <1>4 DEF Stepped, States
<1>. QED
  BY <1>3, <1>5, <1>6

\* fleets_.push_back: the new fleet is the last.
LEMMA JoinedLast ==
  ASSUME IInv, FleetsNumbered, NEW fleet, fleets' = Joined(fleets, fleet)
  PROVE  LET last == Cardinality(DOMAIN fleets) + 1
         IN  /\ last \notin DOMAIN fleets
             /\ DOMAIN fleets' = DOMAIN fleets \cup {last}
             /\ Cardinality(DOMAIN fleets') = last
             /\ FleetsNumbered'
             /\ fleets'[last] = fleet
             /\ \A i \in DOMAIN fleets : fleets'[i] = fleets[i]
<1>. DEFINE last == Cardinality(DOMAIN fleets) + 1
<1>1. IsFiniteSet(DOMAIN fleets) /\ Cardinality(DOMAIN fleets) \in Nat
  BY FS_CardinalityType DEF IInv, IsFleetList
<1>2. last \notin DOMAIN fleets
  BY <1>1 DEF FleetsNumbered
<1>3. fleets' = [n \in DOMAIN fleets \cup {last} |-> IF n = last THEN fleet ELSE fleets[n]]
  BY DEF Joined
<1>4. DOMAIN fleets' = DOMAIN fleets \cup {last}
  BY <1>3
<1>5. Cardinality(DOMAIN fleets') = last
  BY <1>1, <1>2, <1>4, FS_AddElement
<1>6. DOMAIN fleets \cup {last} = 1..last
  BY <1>1 DEF FleetsNumbered
<1>7. FleetsNumbered'
  BY <1>4, <1>5, <1>6 DEF FleetsNumbered
<1>. QED
  BY <1>2, <1>3, <1>4, <1>5, <1>7

\* One fleet more, to where the faction has none on its way, keeps the bounds.
LEMMA JoinedBounded ==
  ASSUME FleetInv, NEW fi \in FactionIds, NEW fleet, fleets' = Joined(fleets, fleet),
         fleet.faction = fi, fleet.target \in Int \X Int, fleet.turns_left \in Nat,
         Cardinality(Of(fi)) < 8,
         fleet.target = RegroupPoint(fi) \/ ~EnRoute(fi, fleet.target)
  PROVE  FleetsNumbered' /\ FlightsOK' /\ FleetsBounded'
<1>. DEFINE last == Cardinality(DOMAIN fleets) + 1
<1>1. /\ last \notin DOMAIN fleets
      /\ DOMAIN fleets' = DOMAIN fleets \cup {last}
      /\ FleetsNumbered'
      /\ fleets'[last] = fleet
      /\ \A i \in DOMAIN fleets : fleets'[i] = fleets[i]
  BY JoinedLast DEF FleetInv
<1>. HIDE DEF last
<1>2. FlightsOK'
  BY <1>1 DEF FlightsOK, FleetInv
<1>3. Of(fi)' = Of(fi) \cup {last}
  BY <1>1 DEF Of
<1>4. \A f \in FactionIds : f # fi => Of(f)' = Of(f)
  BY <1>1 DEF Of
<1>5. Cardinality(Of(fi)') <= 8
  <2>1. IsFiniteSet(Of(fi)) /\ Cardinality(Of(fi)) \in Nat /\ last \notin Of(fi)
    BY <1>1, FiniteOwn DEF FleetInv, Of
  <2>2. Cardinality(Of(fi) \cup {last}) = Cardinality(Of(fi)) + 1
    BY <2>1, FS_AddElement
  <2>. QED
    BY <1>3, <2>1, <2>2
<1>6. ASSUME NEW f \in FactionIds, NEW i \in Of(f)', NEW j \in Of(f)',
             fleets'[i].target = fleets'[j].target, fleets'[i].target # RegroupPoint(f)
      PROVE  i = j
  <2>1. ASSUME NEW k \in Of(f), NEW l \in Of(f), fleets[k].target = fleets[l].target,
               fleets[k].target # RegroupPoint(f)
        PROVE  k = l
    BY <2>1 DEF FleetInv, FleetsBounded, RegroupPoint
  <2>2. \A k \in Of(f) : fleets'[k] = fleets[k]
    BY <1>1 DEF Of
  <2>3. CASE i \in Of(f) /\ j \in Of(f)
    BY <1>6, <2>1, <2>2, <2>3
  <2>4. CASE ~(i \in Of(f) /\ j \in Of(f))
    <3>1. f = fi /\ (i = last \/ j = last)
      BY <1>3, <1>4, <2>4
    <3>2. \A k \in Of(fi) : fleet.target # RegroupPoint(fi) => fleets[k].target # fleet.target
      BY DEF EnRoute
    <3>. QED
      BY <1>1, <1>3, <1>6, <2>2, <3>1, <3>2
  <2>. QED
    BY <2>3, <2>4
<1>7. \A f \in FactionIds : Cardinality(Of(f)') <= 8
  BY <1>4, <1>5 DEF FleetInv, FleetsBounded
<1>8. FleetsBounded'
  BY <1>6, <1>7 DEF FleetsBounded, RegroupPoint
<1>. QED
  BY <1>1, <1>2, <1>8

\* When no fleet changes its course the bounds are kept.
LEMMA SameCourse ==
  ASSUME FleetInv, DOMAIN fleets' = DOMAIN fleets,
         \A i \in DOMAIN fleets : /\ fleets'[i].faction = fleets[i].faction
                                  /\ fleets'[i].target = fleets[i].target
                                  /\ fleets'[i].turns_left \in Nat
  PROVE  FleetsNumbered' /\ FlightsOK' /\ FleetsBounded'
<1>1. \A fi : Of(fi)' = Of(fi) /\ Of(fi) \subseteq DOMAIN fleets
  BY DEF Of
<1>2. FleetsNumbered' /\ FlightsOK'
  BY DEF FleetInv, FleetsNumbered, FlightsOK
<1>3. FleetsBounded'
  BY <1>1 DEF FleetInv, FleetsBounded
<1>. QED
  BY <1>2, <1>3

\* fleets_.erase: the others move up, and each stays one fleet.
LEMMA KeptBounded ==
  ASSUME FleetInv, NEW S \in SUBSET DOMAIN fleets, fleets' = Kept(S)
  PROVE  FleetsNumbered' /\ FlightsOK' /\ FleetsBounded'
<1>. DEFINE upto(i) == {j \in S : j <= i}
            Rank(i) == Cardinality(upto(i))
            Ranks == {Rank(i) : i \in S}
            rank == [i \in S |-> Rank(i)]
            old == [n \in Ranks |-> CHOOSE i \in S : Rank(i) = n]
<1>0. fleets' = [n \in Ranks |-> fleets[CHOOSE i \in S : Rank(i) = n]]
  BY DEF Kept
<1>1. /\ IsFiniteSet(S) /\ Cardinality(S) \in Nat /\ S \subseteq Nat
      /\ \A i \in S : IsFiniteSet(upto(i)) /\ Rank(i) \in Nat /\ Rank(i) <= Cardinality(S)
  <2>1. IsFiniteSet(DOMAIN fleets)
    BY DEF FleetInv, IInv, IsFleetList
  <2>2. IsFiniteSet(S) /\ Cardinality(S) \in Nat
    BY <2>1, FS_Subset, FS_CardinalityType
  <2>3. \A i \in S : upto(i) \in SUBSET S
    OBVIOUS
  <2>4. S \subseteq Nat
    <3>1. Cardinality(DOMAIN fleets) \in Nat
      BY <2>1, FS_CardinalityType
    <3>. QED
      BY <3>1 DEF FleetInv, FleetsNumbered
  <2>. HIDE DEF upto
  <2>. QED
    BY <2>2, <2>3, <2>4, FS_Subset, FS_CardinalityType
<1>2. ASSUME NEW i \in S, NEW j \in S, i < j PROVE Rank(i) < Rank(j)
  <2>1. upto(i) \in SUBSET upto(j) /\ j \in upto(j) /\ j \notin upto(i)
    BY <1>1, <1>2
  <2>. HIDE DEF upto
  <2>2. Rank(i) <= Rank(j) /\ Rank(i) # Rank(j)
    BY <1>1, <2>1, FS_Subset
  <2>. QED
    BY <1>1, <2>2
<1>3. ASSUME NEW i \in S PROVE Rank(i) \in 1..Cardinality(S)
  <2>1. i \in upto(i)
    BY <1>1
  <2>. HIDE DEF upto
  <2>2. Rank(i) # 0
    BY <1>1, <2>1, FS_EmptySet
  <2>. QED
    BY <1>1, <2>2
<1>. HIDE DEF Rank
<1>4. \A i, j \in S : Rank(i) = Rank(j) => i = j
  <2>. SUFFICES ASSUME NEW i \in S, NEW j \in S, Rank(i) = Rank(j) PROVE i = j
    OBVIOUS
  <2>1. Rank(i) \in Nat /\ Rank(j) \in Nat /\ i \in Nat /\ j \in Nat
    BY <1>1
  <2>2. ~(Rank(i) < Rank(j)) /\ ~(Rank(j) < Rank(i))
    BY <2>1
  <2>3. ~(i < j)
    BY <1>2, <2>2
  <2>4. ~(j < i)
    BY <1>2, <2>2
  <2>. QED
    BY <2>1, <2>3, <2>4
<1>5. Ranks = 1..Cardinality(S)
  <2>0. rank \in [S -> 1..Cardinality(S)] /\ \A i, j \in S : rank[i] = rank[j] => i = j
    BY <1>3, <1>4
  <2>1. rank \in Injection(S, 1..Cardinality(S))
    BY <2>0, Zenon DEF Injection, IsInjective
  <2>2. IsFiniteSet(1..Cardinality(S)) /\ Cardinality(1..Cardinality(S)) = Cardinality(S)
    BY <1>1, FS_Interval
  <2>3. rank \in Surjection(S, 1..Cardinality(S))
    BY <2>1, <2>2, FS_Injection
  <2>. QED
    BY <1>3, <2>3 DEF Surjection
<1>6. DOMAIN fleets' = Ranks /\ Cardinality(Ranks) = Cardinality(S)
  <2>1. Cardinality(1..Cardinality(S)) = Cardinality(S)
    BY <1>1, FS_Interval
  <2>2. Cardinality(Ranks) = Cardinality(S)
    BY <1>5, <2>1, Zenon
  <2>3. DOMAIN fleets' = Ranks
    BY <1>0
  <2>. QED
    BY <2>2, <2>3
<1>7. FleetsNumbered'
  BY <1>5, <1>6 DEF FleetsNumbered
<1>8. ASSUME NEW n \in Ranks
      PROVE  old[n] \in S /\ Rank(old[n]) = n /\ fleets'[n] = fleets[old[n]]
  BY <1>0
<1>. HIDE DEF old, Ranks
<1>9. FlightsOK'
  BY <1>6, <1>8 DEF FlightsOK, FleetInv
<1>10. ASSUME NEW fi \in FactionIds
       PROVE  /\ \A n \in Of(fi)' : n \in Ranks /\ old[n] \in Of(fi)
              /\ Cardinality(Of(fi)') <= 8
  <2>1. \A n \in Of(fi)' : n \in Ranks /\ old[n] \in Of(fi)
    BY <1>6, <1>8 DEF Of
  <2>. DEFINE f == [n \in Of(fi)' |-> old[n]]
  <2>2. f \in Injection(Of(fi)', Of(fi))
    <3>1. \A n, m \in Of(fi)' : old[n] = old[m] => n = m
      BY <1>8, <2>1
    <3>. QED
      BY <2>1, <3>1 DEF Injection, IsInjective
  <2>3. IsFiniteSet(Of(fi)) /\ Cardinality(Of(fi)) \in Nat /\ Cardinality(Of(fi)) <= 8
    BY FiniteOwn DEF FleetInv, FleetsBounded
  <2>4. Cardinality(Of(fi)') <= Cardinality(Of(fi)) /\ IsFiniteSet(Of(fi)')
    BY <2>2, <2>3, FS_Injection
  <2>5. Cardinality(Of(fi)') \in Nat
    BY <2>4, FS_CardinalityType
  <2>. QED
    BY <2>1, <2>3, <2>4, <2>5
<1>11. FleetsBounded'
  <2>1. ASSUME NEW fi \in FactionIds, NEW i \in Of(fi)', NEW j \in Of(fi)',
               fleets'[i].target = fleets'[j].target, fleets'[i].target # RegroupPoint(fi)
        PROVE  i = j
    <3>1. old[i] \in Of(fi) /\ old[j] \in Of(fi) /\ i \in Ranks /\ j \in Ranks
      BY <1>10
    <3>2. old[i] = old[j]
      BY <1>8, <2>1, <3>1 DEF FleetInv, FleetsBounded, RegroupPoint
    <3>. QED
      BY <1>8, <3>1, <3>2
  <2>. QED
    BY <1>10, <2>1 DEF FleetsBounded, RegroupPoint
<1>. QED
  BY <1>7, <1>9, <1>11

\* The automaton of a faction adds one fleet at most, and to a place to which
\* the faction has none on its way, or beside its home.
LEMMA OneFleet ==
  ASSUME FleetInv, NEW fi \in FactionIds, TickFaction(fi)
  PROVE  \/ fleets' = fleets
         \/ /\ Cardinality(Of(fi)) < 8
            /\ \E goal \in Int \X Int, strength, turns_left \in Nat :
                 /\ fleets' = Joined(fleets, [faction |-> fi, target |-> goal,
                                              strength |-> strength, turns_left |-> turns_left])
                 /\ goal = RegroupPoint(fi) \/ ~EnRoute(fi, goal)
<1>0. StarsOK /\ IInv /\ FactionsOK /\ Worlds \subseteq Int \X Int
  BY GalaxyAssumption DEF FleetInv, IInv
<1>1. IInv'
  BY <1>0, ActStep
<1>2. DOMAIN stars' \subseteq Worlds
  BY <1>1 DEF IInv, StarsOK
<1>3. Unclaimed(stars') \subseteq Worlds /\ Enemies(fi) \subseteq Worlds
  BY <1>0, <1>2 DEF Unclaimed, Enemies, StarsOK
<1>4. ASSUME NEW goals \in SUBSET Worlds, NEW range, MaySend(fi, goals, range),
             NEW strength \in Nat, NEW travel \in Nat,
             fleets' = Launched(fi, Nearest(fi, goals), strength, travel)
      PROVE  /\ Cardinality(Of(fi)) < 8
             /\ \E goal \in Int \X Int, power, turns_left \in Nat :
                  /\ fleets' = Joined(fleets, [faction |-> fi, target |-> goal,
                                               strength |-> power, turns_left |-> turns_left])
                  /\ goal = RegroupPoint(fi) \/ ~EnRoute(fi, goal)
  <2>. DEFINE goal == Nearest(fi, goals)
              turns == IF travel > 1 THEN travel ELSE 1
  <2>1. goal \in Int \X Int
    BY <1>0, <1>4, NearestIsGoal DEF MaySend
  <2>2. turns \in Nat
    OBVIOUS
  <2>3. fleets' = Joined(fleets, [faction |-> fi, target |-> goal,
                                  strength |-> strength, turns_left |-> turns])
    BY <1>4 DEF Launched
  <2>4. ~EnRoute(fi, goal) /\ Cardinality(Of(fi)) < 8
    BY <1>4 DEF MaySend
  <2>. HIDE DEF goal, turns
  <2>. QED
    BY <2>1, <2>2, <2>3, <2>4
<1>5. ASSUME NEW goals \in SUBSET Worlds, NEW range, MaySend(fi, goals, range)
      PROVE  Gap(fi, Nearest(fi, goals)) \in Nat
  BY <1>0, <1>5, NearestIsGoal, GapDistance DEF MaySend
<1>6. CASE Explore(fi)
  <2>. DEFINE goals == Unclaimed(stars')
              gap == Gap(fi, Nearest(fi, goals))
              travel == IF gap > 3 THEN gap ELSE 2
  <2>1. fleets' = IF MaySend(fi, goals, 10) THEN Launched(fi, Nearest(fi, goals), 3, travel)
                                            ELSE fleets
    BY <1>6 DEF Explore
  <2>2. MaySend(fi, goals, 10) => travel \in Nat
    BY <1>3, <1>5
  <2>3. goals \in SUBSET Worlds
    BY <1>3
  <2>. HIDE DEF goals, travel
  <2>. QED
    BY <1>4, <2>1, <2>2, <2>3
<1>7. CASE Expand(fi)
  <2>. DEFINE goals == Unclaimed(stars')
              travel == Gap(fi, Nearest(fi, goals))
  <2>1. fleets' = IF MaySend(fi, goals, 7) THEN Launched(fi, Nearest(fi, goals), 4, travel)
                                           ELSE fleets
    BY <1>7 DEF Expand
  <2>2. MaySend(fi, goals, 7) => travel \in Nat
    BY <1>3, <1>5
  <2>3. goals \in SUBSET Worlds
    BY <1>3
  <2>. HIDE DEF goals, travel
  <2>. QED
    BY <1>4, <2>1, <2>2, <2>3
<1>8. CASE War(fi)
  <2>. DEFINE goals == Enemies(fi)
              travel == Gap(fi, Nearest(fi, goals))
              force == 6 + 2 * Cardinality(Own(fi))
  <2>1. fleets' = IF MaySend(fi, goals, travel) THEN Launched(fi, Nearest(fi, goals), force, travel)
                                                ELSE fleets
    BY <1>8 DEF War
  <2>2. MaySend(fi, goals, travel) => travel \in Nat
    BY <1>3, <1>5
  <2>3. goals \in SUBSET Worlds /\ force \in Nat
    <3>1. Cardinality(Own(fi)) \in Nat
      BY <1>0, FiniteOwn
    <3>. QED
      BY <1>3, <3>1
  <2>. HIDE DEF goals, travel, force
  <2>. QED
    BY <1>4, <2>1, <2>2, <2>3
<1>9. CASE Regroup(fi)
  <2>. DEFINE point == RegroupPoint(fi)
              base == IF Stepped(fi).timer = 0 THEN Recalled(fi) ELSE fleets
              guard == [faction |-> fi, target |-> point, strength |-> 6, turns_left |-> 2]
  <2>1. Stepped(fi).timer # 0
    BY <1>0, <1>9, RetreatCounts DEF Regroup, Acts
  <2>2. base = fleets
    BY <2>1
  <2>3. fleets' = IF Cardinality(Of(fi)) < 4 THEN Joined(base, guard) ELSE base
    BY <1>9 DEF Regroup, RegroupPoint
  <2>4. point \in Int \X Int
    <3>1. Home[fi] \in Int \X Int
      BY <1>0, HomeAssumption
    <3>. QED
      BY <3>1 DEF RegroupPoint
  <2>5. Cardinality(Of(fi)) \in Nat
    BY <1>0, FiniteOwn
  <2>. HIDE DEF base, point
  <2>6. CASE Cardinality(Of(fi)) < 4
    <3>1. fleets' = Joined(fleets, [faction |-> fi, target |-> point, strength |-> 6, turns_left |-> 2])
      BY <2>2, <2>3, <2>6
    <3>2. Cardinality(Of(fi)) < 8
      BY <2>5, <2>6
    <3>. QED
      BY <2>4, <3>1, <3>2 DEF point
  <2>. QED
    BY <2>2, <2>3, <2>6
<1>. QED
  BY <1>6, <1>7, <1>8, <1>9 DEF TickFaction

\* What every step keeps of the fleets and the factions.
LEMMA FleetNext ==
  ASSUME FleetInv, [Next]_vars
  PROVE  FleetInv'
<1>1. IInv' /\ IInv
  BY IInvNext DEF FleetInv
<1>2. CASE Advance
  <2>1. /\ DOMAIN fleets' = DOMAIN fleets
        /\ \A i \in DOMAIN fleets : fleets'[i] = [fleets[i] EXCEPT !.turns_left = Nearer(@)]
    BY <1>2 DEF Advance
  <2>2. ASSUME NEW i \in DOMAIN fleets
        PROVE  /\ fleets'[i].faction = fleets[i].faction
               /\ fleets'[i].target = fleets[i].target
               /\ fleets'[i].turns_left \in Nat
    <3>1. IsFleet(fleets[i]) /\ fleets[i].turns_left \in Nat
      BY <1>1 DEF IInv, IsFleetList, FleetInv, FlightsOK
    <3>2. Nearer(fleets[i].turns_left) \in Nat
      BY <3>1 DEF Nearer
    <3>. QED
      BY <2>1, <3>1, <3>2 DEF IsFleet
  <2>3. FactionsOK'
    BY <1>2 DEF Advance, FleetInv, FactionsOK
  <2>. QED
    BY <1>1, <2>1, <2>2, <2>3, SameCourse DEF FleetInv
<1>3. CASE Land
  <2>1. PICK k \in arrivals : fleets' = [fleets EXCEPT ![k].strength = 0]
    BY <1>3 DEF Land
  <2>2. ASSUME NEW i \in DOMAIN fleets
        PROVE  /\ fleets'[i].faction = fleets[i].faction
               /\ fleets'[i].target = fleets[i].target
               /\ fleets'[i].turns_left \in Nat
    <3>1. IsFleet(fleets[i]) /\ fleets[i].turns_left \in Nat
      BY <1>1 DEF IInv, IsFleetList, FleetInv, FlightsOK
    <3>2. fleets'[i] = IF i = k THEN [fleets[i] EXCEPT !.strength = 0] ELSE fleets[i]
      BY <1>1, <2>1 DEF IInv, IsFleetList
    <3>. QED
      BY <3>1, <3>2 DEF IsFleet
  <2>3. DOMAIN fleets' = DOMAIN fleets /\ FactionsOK'
    BY <1>3, <2>1 DEF Land, FleetInv, FactionsOK
  <2>. QED
    BY <1>1, <2>2, <2>3, SameCourse DEF FleetInv
<1>4. ASSUME NEW fi \in FactionIds, TickFaction(fi) PROVE FleetInv'
  <2>1. FactionsOK'
    <3>1. factions' = [factions EXCEPT ![fi] = Stepped(fi)]
      BY <1>4 DEF TickFaction, Explore, Expand, War, Regroup, Acts
    <3>2. Stepped(fi) \in [state : States, timer : 0..3, held : Nat]
      BY <1>1, RetreatCounts DEF FleetInv
    <3>. QED
      BY <3>1, <3>2 DEF FleetInv, FactionsOK
  <2>2. CASE fleets' = fleets
    <3>1. FleetsNumbered' /\ FlightsOK' /\ FleetsBounded'
      BY <2>2, SameCourse DEF FleetInv, FlightsOK
    <3>. QED
      BY <1>1, <2>1, <3>1 DEF FleetInv
  <2>3. CASE fleets' # fleets
    <3>1. Cardinality(Of(fi)) < 8
      BY <1>4, <2>3, OneFleet
    <3>2. PICK goal \in Int \X Int, strength \in Nat, turns_left \in Nat :
                 /\ fleets' = Joined(fleets, [faction |-> fi, target |-> goal,
                                              strength |-> strength, turns_left |-> turns_left])
                 /\ goal = RegroupPoint(fi) \/ ~EnRoute(fi, goal)
      BY <1>4, <2>3, OneFleet
    <3>. DEFINE fleet == [faction |-> fi, target |-> goal, strength |-> strength,
                          turns_left |-> turns_left]
    <3>3. fleet.faction = fi /\ fleet.target = goal /\ fleet.turns_left = turns_left
      OBVIOUS
    <3>4. fleets' = Joined(fleets, fleet)
      BY <3>2
    <3>. HIDE DEF fleet
    <3>5. FleetsNumbered' /\ FlightsOK' /\ FleetsBounded'
      BY <3>1, <3>2, <3>3, <3>4, JoinedBounded
    <3>. QED
      BY <1>1, <2>1, <3>5 DEF FleetInv
  <2>. QED
    BY <2>2, <2>3
<1>5. CASE Clean
  <2>1. FleetsNumbered' /\ FlightsOK' /\ FleetsBounded'
    BY <1>5, KeptBounded DEF Clean
  <2>2. FactionsOK'
    BY <1>5 DEF Clean, FleetInv, FactionsOK
  <2>. QED
    BY <1>1, <2>1, <2>2 DEF FleetInv
<1>6. CASE Command \/ EndOfInput \/ UNCHANGED vars
  <2>1. UNCHANGED <<fleets, factions>>
    BY <1>6 DEF Command, EndOfInput, vars, Move, Colonize, Wait, Quit, Commanded, Acts
  <2>2. CASE UNCHANGED <<fleets, factions>>
    <3>1. FleetsNumbered' /\ FlightsOK' /\ FleetsBounded'
      BY <2>2, SameCourse DEF FleetInv, FlightsOK
    <3>2. FactionsOK'
      BY <2>2 DEF FleetInv, FactionsOK
    <3>. QED
      BY <1>1, <3>1, <3>2 DEF FleetInv
  <2>. QED
    BY <2>1, <2>2
<1>. QED
  BY <1>2, <1>3, <1>4, <1>5, <1>6 DEF Next, Unknown, TickAutomata

\* At the first prompt nothing flies.
LEMMA FleetInit ==
  ASSUME Init
  PROVE  FleetInv
<1>1. fleets = [i \in {} |-> 0] /\ DOMAIN fleets = {}
  BY DEF Init
<1>2. Cardinality(DOMAIN fleets) = 0
  BY <1>1, FS_EmptySet
<1>3. FleetsNumbered /\ FlightsOK
  BY <1>1, <1>2 DEF FleetsNumbered, FlightsOK
<1>4. \A fi \in FactionIds : Of(fi) = {}
  BY <1>1 DEF Of
<1>5. FleetsBounded
  BY <1>4, FS_EmptySet DEF FleetsBounded
<1>6. FactionsOK
  BY DEF Init, FactionsOK, States
<1>. QED
  BY <1>3, <1>5, <1>6, IInvInit DEF FleetInv

-----------------------------------------------------------------------------
\* What is around the colonies of a faction has been seen.
SensedBy(fi) == \A w \in Own(fi) : InRange(w, 2) \subseteq DOMAIN stars

\* Where the loop is, and what the factions that had their turn have seen.
SensorInv ==
  /\ acting \in FactionIds
  /\ phase # "act" => acting = 1
  /\ phase = "act" /\ acting = 2 => SensedBy(1)
  /\ phase \in {"clean", "command"} => \A fi \in FactionIds : SensedBy(fi)

\* The turn of a faction changes no owner, and it has seen what is around its
\* own colonies when its turn is over.
LEMMA TurnSweeps ==
  ASSUME IInv, NEW fi \in FactionIds, TickFaction(fi)
  PROVE  /\ \A f \in FactionIds : SensedBy(f) => SensedBy(f)'
         /\ SensedBy(fi)'
<1>. DEFINE around == UNION {InRange(w, 2) : w \in Own(fi)}
<1>0. StarsOK /\ Swept(fi) = Materialized(around)
  BY DEF Swept, IInv
<1>4. \A w \in Own(fi) : InRange(w, 2) \subseteq around \cap Worlds
  BY DEF InRange
<1>. HIDE DEF around
<1>1. /\ DOMAIN Swept(fi) = DOMAIN stars \cup (around \cap Worlds)
      /\ \A w \in DOMAIN stars : Swept(fi)[w] = stars[w]
      /\ \A w \in DOMAIN Swept(fi) \ DOMAIN stars : Swept(fi)[w] = Wild
      /\ Swept(fi) \in [DOMAIN Swept(fi) -> StarType]
  BY <1>0, MaterializedKeeps
<1>2. DOMAIN stars' = DOMAIN Swept(fi) /\ \A w \in DOMAIN stars' : stars'[w].owner = Swept(fi)[w].owner
  <2>1. CASE stars' = Swept(fi)
    BY <2>1
  <2>2. CASE Expand(fi)
    <3>1. stars' = [w \in DOMAIN Swept(fi) |->
                     IF w \in Own(fi)
                     THEN [Swept(fi)[w] EXCEPT !.population = Bounded(@ + 1 + sky[w].growth),
                                               !.defense = Bounded(@ + 1)]
                     ELSE Swept(fi)[w]]
      BY <2>2 DEF Expand
    <3>2. \A w \in DOMAIN Swept(fi) : Swept(fi)[w] \in StarType
      BY <1>1
    <3>. QED
      BY <3>1, <3>2 DEF StarType
  <2>. QED
    BY <2>1, <2>2 DEF TickFaction, Explore, War, Regroup
<1>3. \A f \in FactionIds : Own(f)' = Own(f)
  BY <1>1, <1>2 DEF Own, Wild, Neutral, FactionIds
<1>. QED
  BY <1>1, <1>2, <1>3, <1>4 DEF SensedBy

\* Every step keeps what the factions know of the map.
LEMMA SensorNext ==
  ASSUME IInv, SensorInv, [Next]_vars
  PROVE  SensorInv'
<1>1. CASE Advance \/ Land
  BY <1>1 DEF Advance, Land, SensorInv
<1>2. ASSUME NEW fi \in FactionIds, TickFaction(fi) PROVE SensorInv'
  <2>1. /\ phase = "act" /\ acting = fi
        /\ acting' = (IF fi = 1 THEN 2 ELSE 1) /\ phase' = (IF fi = 1 THEN "act" ELSE "clean")
    BY <1>2 DEF TickFaction, Explore, Expand, War, Regroup, Acts
  <2>2. SensedBy(fi)' /\ (fi = 2 => SensedBy(1)')
    BY <1>2, <2>1, TurnSweeps DEF SensorInv, FactionIds
  <2>3. fi = 1 \/ fi = 2
    BY DEF FactionIds
  <2>. QED
    BY <2>1, <2>2, <2>3 DEF SensorInv, FactionIds
<1>3. CASE Clean
  <2>1. phase = "clean" /\ phase' \in {"command", "over"} /\ UNCHANGED <<stars, acting>>
    BY <1>3 DEF Clean
  <2>. QED
    BY <2>1 DEF SensorInv, SensedBy, Own
<1>4. CASE Command \/ EndOfInput
  BY <1>4 DEF Command, EndOfInput, Move, Colonize, Wait, Quit, Commanded, SensorInv
<1>5. CASE UNCHANGED vars
  BY <1>5 DEF vars, SensorInv, SensedBy, Own
<1>. QED
  BY <1>1, <1>2, <1>3, <1>4, <1>5 DEF Next, Unknown, TickAutomata

\* At the first prompt the player's own scan has covered the surroundings of
\* the homes.
LEMMA SensorInit ==
  ASSUME Init
  PROVE  SensorInv
<1>. DEFINE D == InRange(<<0, 0>>, 6) \cup {Home[fi] : fi \in FactionIds}
<1>1. DOMAIN stars = D
  BY DEF Init
<1>2. ASSUME NEW fi \in FactionIds, NEW w \in Own(fi) PROVE w = Home[1] \/ w = Home[2]
  <2>1. ~(\E f \in FactionIds : w = Home[f]) => stars[w] = Wild
    BY <1>1 DEF Init, Own
  <2>2. Wild.owner = Neutral /\ fi # Neutral
    BY DEF Wild, Neutral, FactionIds
  <2>. QED
    BY <2>1, <2>2 DEF Own, FactionIds
<1>3. \A w \in {Home[1], Home[2]} : InRange(w, 2) \subseteq InRange(<<0, 0>>, 6)
  <2>. SUFFICES ASSUME NEW w \in {<<-4, -4>>, <<4, 4>>}, NEW v \in Worlds, Near(w, v, 2)
                PROVE  Near(<<0, 0>>, v, 6)
    BY DEF InRange, Home
  <2>1. v[1] \in Int /\ v[2] \in Int
    BY GalaxyAssumption
  <2>. QED
    BY <2>1 DEF Near, Abs
<1>4. \A fi \in FactionIds : SensedBy(fi)
  BY <1>1, <1>2, <1>3 DEF SensedBy
<1>. QED
  BY <1>4 DEF SensorInv, Init, FactionIds

-----------------------------------------------------------------------------
\* What is counted stays below the bound, and the loop is where it can be.
CountInv == \A w \in DOMAIN stars : stars[w].population <= MaxCount /\ stars[w].defense <= MaxCount

LoopInv == /\ at \in Int \X Int
           /\ playing \in BOOLEAN
           /\ phase \in {"command", "advance", "land", "act", "clean", "over"}

\* A landing does not count further than the bound.
LEMMA LandingCounts ==
  ASSUME IInv, NEW i \in arrivals, NEW seen, seen = Materialized({fleets[i].target}),
         fleets[i].target \in DOMAIN seen,
         seen[fleets[i].target].population <= MaxCount, seen[fleets[i].target].defense <= MaxCount
  PROVE  LET star == AfterLanding(seen, fleets[i].target, fleets[i])
         IN  star.population <= MaxCount /\ star.defense <= MaxCount
<1>. DEFINE w == fleets[i].target
            fleet == fleets[i]
            star == AfterLanding(seen, w, fleet)
<1>0. /\ seen \in [DOMAIN seen -> StarType]
      /\ \A v \in DOMAIN seen \ DOMAIN stars : seen[v] = Wild
  BY MaterializedKeeps, Zenon DEF IInv
<1>1. seen[w] \in StarType /\ MaxCount \in Nat
  BY <1>0, GalaxyAssumption
<1>2. fleet.faction \in FactionIds /\ fleet.strength \in Nat
  BY DEF IInv, ArrivalsOK, IsFleetList, IsFleet
<1>3. /\ fleet.strength * 2 \in Nat /\ fleet.strength * 3 \in Nat /\ fleet.strength \div 2 \in Nat
      /\ seen[w].defense \in Nat /\ seen[w].population \in Nat
  BY <1>1, <1>2 DEF StarType
<1>4. /\ \A n \in Nat : Bounded(n) <= MaxCount
      /\ \A n, loss \in Nat : n <= MaxCount => Less(n, loss) <= MaxCount
  BY <1>1 DEF Bounded, Less
<1>5. CASE seen[w].owner = Neutral /\ Settleable(w)
  <2>1. star = [owner |-> fleet.faction, population |-> Bounded(fleet.strength * 2),
                defense |-> Bounded(2)]
    BY <1>5, <1>2 DEF AfterLanding, Neutral, FactionIds
  <2>. QED
    BY <1>3, <1>4, <2>1
<1>6. CASE seen[w].owner = Neutral /\ ~Settleable(w)
  BY <1>6, <1>2 DEF AfterLanding, Neutral, FactionIds
<1>7. CASE seen[w].owner = fleet.faction
  <2>1. star = [seen[w] EXCEPT !.defense = Bounded(@ + fleet.strength)]
    BY <1>7, <1>2 DEF AfterLanding, Neutral, FactionIds
  <2>2. seen[w].defense + fleet.strength \in Nat
    BY <1>2, <1>3
  <2>3. Bounded(seen[w].defense + fleet.strength) <= MaxCount
    BY <1>4, <2>2
  <2>. QED
    BY <1>1, <2>1, <2>3 DEF StarType
<1>8. CASE seen[w].owner \notin {Neutral, fleet.faction}
  <2>1. w \in DOMAIN stars
    BY SMTT(30), <1>0, <1>8 DEF Wild
  <2>2. ~(fleet.strength > DefenseAt(w))
    BY <2>1, NeverStronger
  <2>3. star = [seen[w] EXCEPT
                  !.defense = Less(@, fleet.strength \div 2),
                  !.population = IF seen[w].owner = Player THEN Less(@, fleet.strength * 3)
                                                           ELSE @]
    BY <1>8, <2>2 DEF AfterLanding
  <2>4. Less(seen[w].defense, fleet.strength \div 2) <= MaxCount
        /\ Less(seen[w].population, fleet.strength * 3) <= MaxCount
    BY <1>3, <1>4
  <2>. QED
    BY <1>1, <2>3, <2>4 DEF StarType
<1>. QED
  BY <1>5, <1>6, <1>7, <1>8

\* Every step keeps the counts below the bound.
LEMMA CountNext ==
  ASSUME IInv, CountInv, [Next]_vars
  PROVE  CountInv'
<1>0. StarsOK /\ MaxCount \in Nat
  BY GalaxyAssumption DEF IInv
<1>1. \A n \in Nat : Bounded(n) <= MaxCount
  BY <1>0 DEF Bounded
<1>2. ASSUME NEW S, NEW w \in DOMAIN Materialized(S)
      PROVE  /\ Materialized(S)[w] \in StarType
             /\ Materialized(S)[w].population <= MaxCount /\ Materialized(S)[w].defense <= MaxCount
  <2>1. Wild.population <= MaxCount /\ Wild.defense <= MaxCount
    BY <1>0 DEF Wild
  <2>2. \/ w \in DOMAIN stars /\ Materialized(S)[w] = stars[w]
        \/ Materialized(S)[w] = Wild
    BY <1>0, <1>2, MaterializedKeeps
  <2>. QED
    BY <1>0, <1>2, <2>1, <2>2, MaterializedKeeps DEF CountInv
<1>3. CASE \E S : stars' = Materialized(S)
  BY <1>2, <1>3 DEF CountInv
<1>4. CASE Colonize
  <2>. DEFINE seen == Materialized({at})
  <2>1. \/ stars' = seen
        \/ stars' = [seen EXCEPT ![at] = [owner |-> Player, population |-> Bounded(10),
                                          defense |-> Bounded(3)]]
    BY <1>4 DEF Colonize
  <2>2. Bounded(10) <= MaxCount /\ Bounded(3) <= MaxCount
    BY <1>1
  <2>3. \A w \in DOMAIN seen : seen[w].population <= MaxCount /\ seen[w].defense <= MaxCount
    BY <1>2
  <2>. HIDE DEF seen
  <2>. QED
    BY <2>1, <2>2, <2>3 DEF CountInv
<1>5. CASE Land
  <2>1. PICK i \in arrivals :
          LET fleet == fleets[i]
              seen  == Materialized({fleet.target})
          IN  stars' = [w \in DOMAIN seen |->
                          IF w = fleet.target THEN AfterLanding(seen, w, fleet) ELSE seen[w]]
    BY <1>5 DEF Land
  <2>. DEFINE seen == Materialized({fleets[i].target})
  <2>2. \A w \in DOMAIN seen : seen[w].population <= MaxCount /\ seen[w].defense <= MaxCount
    BY <1>2
  <2>3. ASSUME fleets[i].target \in DOMAIN seen
        PROVE  LET star == AfterLanding(seen, fleets[i].target, fleets[i])
               IN  star.population <= MaxCount /\ star.defense <= MaxCount
    BY <2>2, <2>3, LandingCounts
  <2>4. stars' = [w \in DOMAIN seen |->
                    IF w = fleets[i].target THEN AfterLanding(seen, w, fleets[i]) ELSE seen[w]]
    BY <2>1
  <2>. HIDE DEF seen
  <2>. QED
    BY <2>2, <2>3, <2>4 DEF CountInv
<1>6. ASSUME NEW fi \in FactionIds, Expand(fi) PROVE CountInv'
  <2>. DEFINE seen == Swept(fi)
  <2>1. \A w \in DOMAIN seen : /\ seen[w] \in StarType
                               /\ seen[w].population <= MaxCount /\ seen[w].defense <= MaxCount
    BY <1>2 DEF Swept
  <2>2. stars' = [w \in DOMAIN seen |->
                    IF w \in Own(fi)
                    THEN [seen[w] EXCEPT !.population = Bounded(@ + 1 + sky[w].growth),
                                         !.defense = Bounded(@ + 1)]
                    ELSE seen[w]]
    BY <1>6 DEF Expand
  <2>3. DOMAIN seen \subseteq Worlds
    BY <1>0, MaterializedKeeps DEF Swept
  <2>. HIDE DEF seen
  <2>4. ASSUME NEW w \in DOMAIN seen
        PROVE  stars'[w].population <= MaxCount /\ stars'[w].defense <= MaxCount
    <3>1. seen[w].population \in Nat /\ seen[w].defense \in Nat /\ sky[w].growth \in Nat
      BY <1>0, <2>1, <2>3, GalaxyAssumption DEF StarsOK, StarType
    <3>2. seen[w].population + 1 + sky[w].growth \in Nat /\ seen[w].defense + 1 \in Nat
      BY <3>1
    <3>3. /\ Bounded(seen[w].population + 1 + sky[w].growth) <= MaxCount
          /\ Bounded(seen[w].defense + 1) <= MaxCount
      BY <1>1, <3>2
    <3>4. seen[w] \in StarType
      BY <2>1
    <3>. QED
      BY <2>1, <2>2, <3>3, <3>4 DEF StarType
  <2>. QED
    BY <2>2, <2>4 DEF CountInv
<1>7. CASE UNCHANGED stars
  BY <1>7 DEF CountInv
<1>8. \/ Colonize \/ Land \/ (\E fi \in FactionIds : Expand(fi))
      \/ UNCHANGED stars \/ \E S : stars' = Materialized(S)
  BY DEF Next, Unknown, vars, Command, EndOfInput, TickAutomata, TickFaction, Move, Wait, Quit, Advance, Clean,
         Explore, War, Regroup, Swept
<1>. QED
  BY <1>3, <1>4, <1>5, <1>6, <1>7, <1>8

\* At the first prompt the counts are below the bound.
LEMMA CountInit ==
  ASSUME Init
  PROVE  CountInv /\ LoopInv
<1>1. MaxCount \in Nat
  BY GalaxyAssumption
<1>2. Bounded(20) <= MaxCount /\ Bounded(5) <= MaxCount
  BY <1>1 DEF Bounded
<1>3. \A w \in DOMAIN stars :
        \/ stars[w].population = Bounded(20) /\ stars[w].defense = Bounded(5)
        \/ stars[w] = Wild
  BY DEF Init
<1>4. CountInv
  BY <1>1, <1>2, <1>3 DEF CountInv, Wild
<1>. QED
  BY <1>4 DEF Init, LoopInv

\* Every step leaves the loop at one of its places.
LEMMA LoopNext ==
  ASSUME LoopInv, [Next]_vars
  PROVE  LoopInv'
<1>1. CASE \E p \in Reach : Move(p)
  BY <1>1, GalaxyAssumption DEF Move, Commanded, LoopInv
<1>2. CASE Colonize \/ Wait \/ Quit \/ EndOfInput
  BY <1>2 DEF Colonize, Wait, Quit, EndOfInput, Commanded, LoopInv
<1>3. CASE Advance \/ Land \/ Clean
  BY <1>3 DEF Advance, Land, Clean, LoopInv
<1>4. CASE \E fi \in FactionIds : TickFaction(fi)
  BY <1>4 DEF TickFaction, Explore, Expand, War, Regroup, Acts, LoopInv
<1>5. CASE UNCHANGED vars
  BY <1>5 DEF vars, LoopInv
<1>. QED
  BY <1>1, <1>2, <1>3, <1>4, <1>5 DEF Next, Command, Unknown, TickAutomata

-----------------------------------------------------------------------------
(* The theorems.                                                           *)

\* Everything that the properties rest on.
GalaxyInv == FleetInv /\ SensorInv /\ CountInv /\ LoopInv /\ empire \in Seq(Worlds) /\ EmpireExact

\* It is inductive.
LEMMA GalaxyInvariant == Spec => []GalaxyInv
<1>1. Init => GalaxyInv
  BY FleetInit, SensorInit, CountInit, IInvInit DEF GalaxyInv
<1>2. GalaxyInv /\ [Next]_vars => GalaxyInv'
  BY FleetNext, SensorNext, CountNext, LoopNext, IInvNext DEF GalaxyInv, FleetInv
<1>. QED
  BY <1>1, <1>2, PTL DEF Spec

\* The types: the fleets are numbered without a gap, every target is a system,
\* the counts keep to their bound and no loss makes one negative.
THEOREM GalaxyTypes == Spec => []TypeOK
<1>1. GalaxyInv => TypeOK
  <2>. SUFFICES ASSUME GalaxyInv PROVE TypeOK
    OBVIOUS
  <2>1. IInv /\ FleetsNumbered /\ FlightsOK /\ FactionsOK /\ SensorInv /\ CountInv /\ LoopInv
        /\ EmpireExact /\ MaxCount \in Nat
    BY GalaxyAssumption DEF GalaxyInv, FleetInv
  <2>2. stars \in [DOMAIN stars -> [owner : {Neutral, Player} \cup FactionIds,
                                    population : 0..MaxCount, defense : 0..MaxCount]]
    <3>1. ASSUME NEW w \in DOMAIN stars
          PROVE  stars[w] \in [owner : {Neutral, Player} \cup FactionIds,
                               population : 0..MaxCount, defense : 0..MaxCount]
      BY <2>1 DEF IInv, StarsOK, StarType, CountInv
    <3>2. stars = [w \in DOMAIN stars |-> stars[w]]
      BY <2>1 DEF IInv, StarsOK
    <3>. QED
      BY <3>1, <3>2
  <2>3. \A i \in DOMAIN fleets : /\ fleets[i].faction \in FactionIds
                                 /\ fleets[i].target \in Int \X Int
                                 /\ fleets[i].strength \in Nat
                                 /\ fleets[i].turns_left \in Nat
    BY <2>1 DEF IInv, IsFleetList, IsFleet, FlightsOK
  <2>4. sky \in Skies /\ DOMAIN stars \subseteq Worlds /\ arrivals \subseteq DOMAIN fleets
    BY <2>1 DEF IInv, StarsOK, ArrivalsOK
  <2>5. empire \in Seq(Worlds)
    BY DEF GalaxyInv
  <2>. QED
    BY <2>1, <2>2, <2>3, <2>4, <2>5 DEF TypeOK, FleetsNumbered, FactionsOK, States, LoopInv, SensorInv
<1>. QED
  BY <1>1, GalaxyInvariant, PTL

\* A faction has at most 8 fleets in flight (galaxy.hpp:206), and at most one on
\* its way to each system but the point beside its home, through launches,
\* landings and the removal of dead fleets, which gives the others new places.
THEOREM FleetsCorrect == Spec => []FleetsBounded
<1>1. GalaxyInv => FleetsBounded
  BY DEF GalaxyInv, FleetInv
<1>. QED
  BY <1>1, GalaxyInvariant, PTL

\* No dark spot is left within the sensors of a faction's colonies when the
\* player is asked for a command (galaxy.hpp:163-164), for every galaxy.
THEOREM SensorsCorrect == Spec => []Sensed
<1>1. GalaxyInv => Sensed
  BY DEF GalaxyInv, SensorInv, SensedBy, Sensed
<1>. QED
  BY <1>1, GalaxyInvariant, PTL
=============================================================================
