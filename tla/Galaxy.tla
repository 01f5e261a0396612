------------------------------- MODULE Galaxy -------------------------------
(***************************************************************************)
(* The turn of the Galaxy Architect demo: the player's command             *)
(* (main.cpp, process_cmd), then tick_automata of galaxy.hpp: fleets       *)
(* advance, the arrivals fight one by one, each faction runs its           *)
(* automaton, dead fleets are removed.  One action per function; `phase'   *)
(* and `acting' are the program counter of the loop in main, which nothing *)
(* interrupts.                                                             *)
(*                                                                         *)
(* A system is a position <<x, y>>.  Outside Worlds every system is a      *)
(* black hole, which nobody settles and nothing observes; what a world is  *)
(* like is up to the generator, that is to the seed.  Only worlds are kept *)
(* in `stars'.  Fleet ids, origins, names and the rendering are left out.  *)
(***************************************************************************)
EXTENDS Integers, FiniteSets, Sequences

CONSTANTS Worlds,    \* the systems that may be anything but black holes
          Skies,     \* the galaxies that the generator may make: world -> its nature
          Reach,     \* the systems the player may move to
          MaxCount   \* populations and garrisons are counted up to here

ASSUME GalaxyAssumption ==
  /\ Worlds \subseteq Int \X Int /\ IsFiniteSet(Worlds)
  /\ Skies \subseteq [Worlds -> [black : BOOLEAN, fertile : BOOLEAN, growth : 0..3]]
  /\ Reach \subseteq Int \X Int
  /\ MaxCount \in Nat

VARIABLES sky,       \* type and habitability of each world (what get_system generates)
          stars,     \* cache_: the materialized worlds
          fleets,    \* fleets_: position in the vector -> fleet
          factions,  \* factions_
          empire,    \* Game::colonized, the player's list of colonies
          at,        \* the player's position
          playing,   \* `running' of main
          phase, arrivals, acting

vars == <<sky, stars, fleets, factions, empire, at, playing, phase, arrivals, acting>>

-----------------------------------------------------------------------------
(* Space.                                                                  *)

Neutral == -1
Player  == 0
Home    == <<<<-4, -4>>, <<4, 4>>>>
FactionIds == 1..2
ASSUME HomeAssumption == \A fi \in FactionIds : Home[fi] \in Worlds

Abs(n) == IF n < 0 THEN -n ELSE n
Near(a, b, r)  == Abs(a[1] - b[1]) <= r /\ Abs(a[2] - b[2]) <= r
Distance(a, b) == Abs(a[1] - b[1]) + Abs(a[2] - b[2])

\* system_key: x is the signed, y the unsigned half of the key.
KeyBefore(a, b) == \/ a[1] < b[1]
                   \/ /\ a[1] = b[1]
                      /\ IF (a[2] < 0) = (b[2] < 0) THEN a[2] < b[2] ELSE b[2] < 0

Bounded(n) == IF n > MaxCount THEN MaxCount ELSE n

\* Mutant of Less: a loss may be greater than what there is.
LessUnclamped(n, loss) == n - loss

Less(n, loss) == IF n < loss THEN 0 ELSE n - loss

Wild == [owner |-> Neutral, population |-> 0, defense |-> 0]

\* get_system for each member of S.
Materialized(S) ==
  [w \in DOMAIN stars \cup (S \cap Worlds) |-> IF w \in DOMAIN stars THEN stars[w] ELSE Wild]

InRange(center, r) == {w \in Worlds : Near(center, w, r)}

Own(fi)       == {w \in DOMAIN stars : stars[w].owner = fi}
Settleable(w) == ~sky[w].black /\ sky[w].fertile
Enemies(fi)   == {w \in DOMAIN stars : stars[w].owner \notin {Neutral, fi}}

-----------------------------------------------------------------------------
(* Fleets.                                                                 *)

Of(fi)         == {i \in DOMAIN fleets : fleets[i].faction = fi}
EnRoute(fi, w) == \E i \in Of(fi) : fleets[i].target = w
Landed(w)      == {i \in DOMAIN fleets : fleets[i].turns_left <= 0 /\ fleets[i].target = w}

\* The strength of a set of fleets, counted in ships.
Strength(S) == Cardinality(UNION {{i} \X (1..fleets[i].strength) : i \in S})

\* Mutant of DefenseAt: the fleets on the ground are left out.
GarrisonOnly(w) == stars[w].defense + stars[w].population \div 5

\* defense_at: every fleet that has landed there counts.
DefenseAt(w) == stars[w].defense + stars[w].population \div 5 + Strength(Landed(w))

\* fleets_.push_back
Joined(list, fleet) ==
  LET last == Cardinality(DOMAIN list) + 1
  IN  [n \in DOMAIN list \cup {last} |-> IF n = last THEN fleet ELSE list[n]]

\* fleets_.erase of all but the members of S: the others move up.
Kept(S) ==
  LET Rank(i) == Cardinality({j \in S : j <= i})
  IN  [n \in {Rank(i) : i \in S} |-> fleets[CHOOSE i \in S : Rank(i) = n]]

-----------------------------------------------------------------------------
\* main, up to the first prompt.
Init ==
  /\ sky \in Skies
  /\ stars = [w \in InRange(<<0, 0>>, 6) \cup {Home[fi] : fi \in FactionIds} |->
                IF \E fi \in FactionIds : w = Home[fi]
                THEN [owner |-> CHOOSE fi \in FactionIds : w = Home[fi],
                      population |-> Bounded(20), defense |-> Bounded(5)]
                ELSE Wild]
  /\ fleets = [i \in {} |-> 0]
  /\ factions = [fi \in FactionIds |-> [state |-> "EXPLORE", timer |-> 0, held |-> 0]]
  /\ empire = <<>>
  /\ at = <<0, 0>>
  /\ playing = TRUE
  /\ phase = "command"
  /\ arrivals = {}
  /\ acting = 1

-----------------------------------------------------------------------------
(* The player's commands: each is followed by a whole turn.                *)

Commanded == phase = "command" /\ phase' = "advance" /\ UNCHANGED <<sky, fleets, factions, arrivals, acting>>

Move(p) ==
  /\ Commanded
  /\ p # at /\ Near(at, p, 1)
  /\ at' = p
  /\ stars' = Materialized(InRange(p, 6))
  /\ UNCHANGED <<empire, playing>>

Colonize ==
  /\ Commanded
  /\ at \in Worlds
  /\ LET seen == Materialized({at})
     IN  IF seen[at].owner = Neutral /\ ~sky[at].black
         THEN /\ stars' = [seen EXCEPT ![at] = [owner |-> Player, population |-> Bounded(10),
                                                defense |-> Bounded(3)]]
              /\ empire' = Append(empire, at)
         ELSE stars' = seen /\ UNCHANGED empire
  /\ UNCHANGED <<at, playing>>

\* wait, help, status, replay.
Wait == Commanded /\ UNCHANGED <<stars, empire, at, playing>>

\* quit: the factions have one more turn.
Quit == Commanded /\ playing' = FALSE /\ UNCHANGED <<stars, empire, at>>

\* Any other line: main reads the next one, and no turn passes.
Unknown == phase = "command" /\ UNCHANGED vars

\* The input ends: main leaves the loop at once.
EndOfInput == /\ phase = "command"
              /\ phase' = "over"
              /\ UNCHANGED <<sky, stars, fleets, factions, empire, at, playing, arrivals, acting>>

-----------------------------------------------------------------------------
(* tick_automata.                                                          *)

\* Mutant of Nearer: the last turn does not pass.
NearerButOne(turns) == IF turns > 1 THEN turns - 1 ELSE turns

Nearer(turns) == IF turns > 0 THEN turns - 1 ELSE turns

Advance ==
  /\ phase = "advance"
  /\ fleets' = [i \in DOMAIN fleets |-> [fleets[i] EXCEPT !.turns_left = Nearer(@)]]
  /\ arrivals' = {i \in DOMAIN fleets : fleets[i].turns_left > 0 /\ fleets'[i].turns_left = 0}
  /\ phase' = IF arrivals' = {} THEN "act" ELSE "land"
  /\ UNCHANGED <<sky, stars, factions, empire, at, playing, acting>>

\* resolve_combat: what becomes of world w of the map seen when the fleet lands.
AfterLanding(seen, w, fleet) ==
  LET star == seen[w]
      def  == DefenseAt(w)
  IN  CASE star.owner = Neutral /\ Settleable(w) ->
             [owner |-> fleet.faction, population |-> Bounded(fleet.strength * 2),
              defense |-> Bounded(2)]
        [] star.owner = Neutral /\ ~Settleable(w) -> star
        [] star.owner = fleet.faction ->
             [star EXCEPT !.defense = Bounded(@ + fleet.strength)]
        [] star.owner \notin {Neutral, fleet.faction} /\ fleet.strength > def ->
             [owner      |-> fleet.faction,
              population |-> IF star.population < 6 THEN 1 ELSE star.population \div 3,
              defense    |-> Bounded((fleet.strength - def \div 2) \div 2)]
        [] OTHER ->
             [star EXCEPT
                !.defense = Less(@, fleet.strength \div 2),
                !.population = IF star.owner = Player THEN Less(@, fleet.strength * 3) ELSE @]

\* resolve_combat for the first arrival that is left; the fleet is spent.
Land ==
  /\ phase = "land"
  /\ \E i \in arrivals :
       /\ \A j \in arrivals : i <= j
       /\ LET fleet == fleets[i]
              seen  == Materialized({fleet.target})
          IN  stars' = [w \in DOMAIN seen |->
                          IF w = fleet.target THEN AfterLanding(seen, w, fleet) ELSE seen[w]]
       /\ fleets' = [fleets EXCEPT ![i].strength = 0]
       /\ arrivals' = arrivals \ {i}
  /\ phase' = IF arrivals' = {} THEN "act" ELSE "land"
  /\ UNCHANGED <<sky, factions, empire, at, playing, acting>>

-----------------------------------------------------------------------------
(* tick_faction: the automaton moves on, then acts as its new state tells. *)

\* Mutant of Swept: only the home has sensors.
SweptAtHome(fi) == Materialized(InRange(Home[fi], 2))

\* The sensor sweep around the colonies.
Swept(fi) == Materialized(UNION {InRange(w, 2) : w \in Own(fi)})

\* Both war thresholds lie between the two values that `pressure' takes.
Border(fi) == \E w \in Own(fi), e \in Enemies(fi) : Near(w, e, 4)

\* The transitions but for the time box of RETREAT.
Roused(fi) ==
  LET explored == IF factions[fi].state = "EXPLORE" /\ Cardinality(Own(fi)) >= 2
                  THEN "EXPAND" ELSE factions[fi].state
      pressed  == IF explored = "EXPAND" /\ Border(fi) THEN "WAR" ELSE explored
      weak     == Own(fi) = {} \/ Strength(Of(fi)) < 5
  IN  CASE pressed = "WAR" /\ weak                  -> "RETREAT"
        [] pressed = "WAR" /\ ~weak /\ ~Border(fi)  -> "EXPAND"
        [] OTHER                                    -> pressed

\* Mutant of Timer: it starts anew at every turn.
TimerStuck(fi) == IF Roused(fi) = "RETREAT" THEN 1 ELSE 0

\* retreat_timer; all values from 3 on act alike.
Timer(fi) == CASE Roused(fi) # "RETREAT"  -> 0
               [] factions[fi].timer >= 3 -> 3
               [] OTHER                   -> factions[fi].timer + 1

Stepped(fi) ==
  [state |-> IF Roused(fi) = "RETREAT" /\ Timer(fi) >= 3 THEN "EXPAND" ELSE Roused(fi),
   timer |-> Timer(fi),
   held  |-> Cardinality(Own(fi))]

\* The turn of faction fi comes, and its automaton goes to state.
Acts(fi, state) ==
  /\ phase = "act" /\ acting = fi
  /\ Stepped(fi).state = state
  /\ factions' = [factions EXCEPT ![fi] = Stepped(fi)]
  /\ acting' = IF fi = 1 THEN 2 ELSE 1
  /\ phase' = IF fi = 1 THEN "act" ELSE "clean"
  /\ UNCHANGED <<sky, empire, at, playing, arrivals>>

Gap(fi, w) == CHOOSE d \in {Distance(o, w) : o \in Own(fi)} :
                \A o \in Own(fi) : d <= Distance(o, w)

\* The first in the order of cache_ among the members of S nearest to a colony.
Nearest(fi, S) ==
  CHOOSE w \in S :
    \A v \in S \ {w} : \/ Gap(fi, w) < Gap(fi, v)
                      \/ /\ Gap(fi, w) = Gap(fi, v)
                         /\ KeyBefore(w, v)

Unclaimed(seen) == {w \in DOMAIN seen : seen[w].owner = Neutral /\ Settleable(w)}

\* spawn_fleet
Launched(fi, goal, strength, travel) ==
  Joined(fleets, [faction |-> fi, target |-> goal, strength |-> strength,
                  turns_left |-> IF travel > 1 THEN travel ELSE 1])

\* Mutant of MaySend: a target may be sent to again and again.
MaySendAgain(fi, goals, range) ==
  /\ goals # {} /\ Own(fi) # {}
  /\ Gap(fi, Nearest(fi, goals)) <= range
  /\ Cardinality(Of(fi)) < 8

\* A fleet may leave for the nearest of the goals.
MaySend(fi, goals, range) ==
  /\ goals # {} /\ Own(fi) # {}
  /\ Gap(fi, Nearest(fi, goals)) <= range
  /\ ~EnRoute(fi, Nearest(fi, goals))
  /\ Cardinality(Of(fi)) < 8

Explore(fi) ==
  /\ Acts(fi, "EXPLORE")
  /\ stars' = Swept(fi)
  /\ LET goals == Unclaimed(stars')
         goal  == Nearest(fi, goals)
     IN  fleets' = IF MaySend(fi, goals, 10)
                   THEN Launched(fi, goal, 3, IF Gap(fi, goal) > 3 THEN Gap(fi, goal) ELSE 2)
                   ELSE fleets

Expand(fi) ==
  /\ Acts(fi, "EXPAND")
  /\ LET seen == Swept(fi)
     IN  stars' = [w \in DOMAIN seen |->
                     IF w \in Own(fi)
                     THEN [seen[w] EXCEPT !.population = Bounded(@ + 1 + sky[w].growth),
                                          !.defense = Bounded(@ + 1)]
                     ELSE seen[w]]
  /\ LET goals == Unclaimed(stars')
         goal  == Nearest(fi, goals)
     IN  fleets' = IF MaySend(fi, goals, 7) THEN Launched(fi, goal, 4, Gap(fi, goal)) ELSE fleets

War(fi) ==
  /\ Acts(fi, "WAR")
  /\ stars' = Swept(fi)
  /\ LET goal  == Nearest(fi, Enemies(fi))
         force == 6 + 2 * Cardinality(Own(fi))
     IN  fleets' = IF MaySend(fi, Enemies(fi), Gap(fi, goal))
                   THEN Launched(fi, goal, force, Gap(fi, goal)) ELSE fleets

\* The recall overwrites the target before it measures the way home.
Recalled(fi) ==
  [i \in DOMAIN fleets |-> IF i \in Of(fi)
                           THEN [fleets[i] EXCEPT !.target = Home[fi], !.turns_left = 1]
                           ELSE fleets[i]]

Regroup(fi) ==
  /\ Acts(fi, "RETREAT")
  /\ stars' = Swept(fi)
  /\ LET base  == IF Stepped(fi).timer = 0 THEN Recalled(fi) ELSE fleets
         guard == [faction |-> fi, target |-> <<Home[fi][1] + 1, Home[fi][2]>>,
                   strength |-> 6, turns_left |-> 2]
     IN  fleets' = IF Cardinality(Of(fi)) < 4 THEN Joined(base, guard) ELSE base

\* Dead fleets are removed, and main reads the next command.
Clean ==
  /\ phase = "clean"
  /\ fleets' = Kept({i \in DOMAIN fleets : fleets[i].strength > 0})
  /\ phase' = IF playing THEN "command" ELSE "over"
  /\ UNCHANGED <<sky, stars, factions, empire, at, playing, arrivals, acting>>

-----------------------------------------------------------------------------
Command == (\E p \in Reach : Move(p)) \/ Colonize \/ Wait \/ Quit

TickFaction(fi) == Explore(fi) \/ Expand(fi) \/ War(fi) \/ Regroup(fi)

TickAutomata == Advance \/ Land \/ (\E fi \in FactionIds : TickFaction(fi)) \/ Clean

Next == Command \/ Unknown \/ EndOfInput \/ TickAutomata

\* Once it has a command, main runs the turn to its end by itself.
TurnsEnd == WF_vars(TickAutomata)

\* An assumption on the input, not on the code: it does not consist of unknown
\* lines from some point on, and the player does not think for ever.
CommandsKeepComing == WF_vars(Command \/ EndOfInput)

Spec == Init /\ [][Next]_vars /\ TurnsEnd /\ CommandsKeepComing

-----------------------------------------------------------------------------
TypeOK ==
  /\ sky \in Skies
  /\ DOMAIN stars \subseteq Worlds
  /\ stars \in [DOMAIN stars -> [owner : {Neutral, Player} \cup FactionIds,
                                population : 0..MaxCount, defense : 0..MaxCount]]
  /\ DOMAIN fleets = 1..Cardinality(DOMAIN fleets)
  /\ \A i \in DOMAIN fleets : /\ fleets[i].faction \in FactionIds
                              /\ fleets[i].target \in Int \X Int
                              /\ fleets[i].strength \in Nat
                              /\ fleets[i].turns_left \in Nat
  /\ factions \in [FactionIds -> [state : {"EXPLORE", "EXPAND", "WAR", "RETREAT"},
                                  timer : 0..3, held : Nat]]
  /\ empire \in Seq(Worlds)
  /\ at \in Int \X Int
  /\ playing \in BOOLEAN
  /\ phase \in {"command", "advance", "land", "act", "clean", "over"}
  /\ arrivals \subseteq DOMAIN fleets
  /\ acting \in FactionIds

\* The list of colonies that the prompt and the status count (main.cpp:57, :83)
\* holds each of the systems that the player owns on the map once, and nothing
\* else, although combat changes the map and nobody tells the list.
EmpireExact ==
  /\ {empire[n] : n \in DOMAIN empire} = Own(Player)
  /\ \A m, n \in DOMAIN empire : empire[m] = empire[n] => m = n

\* When the player is asked for a command, the map has no dark spot within the
\* sensors of a faction's colonies, those founded this turn included
\* (galaxy.hpp:163-164).
Sensed ==
  phase = "command" =>
    \A fi \in FactionIds : \A w \in Own(fi) : InRange(w, 2) \subseteq DOMAIN stars

\* A faction keeps at most 8 fleets in flight (galaxy.hpp:206), and at most one
\* on its way to each system, but for the regroup point beside its home.
FleetsBounded ==
  \A fi \in FactionIds :
    /\ Cardinality(Of(fi)) <= 8
    /\ \A i, j \in Of(fi) :
         fleets[i].target = fleets[j].target /\ fleets[i].target # <<Home[fi][1] + 1, Home[fi][2]>>
           => i = j

\* No system is ever conquered: what has an owner keeps it, through every war.
\* defense_at counts the landed fleets, and the attacker is one of them.
NoConquest == [][\A w \in DOMAIN stars : stars[w].owner # Neutral =>
                   w \in DOMAIN stars' /\ stars'[w].owner = stars[w].owner]_vars

\* Nothing stays under way for ever: as long as the game goes on, a faction is
\* again and again without a fleet to a given target.
FleetsLand == \A fi \in FactionIds, w \in Worlds :
                EnRoute(fi, w) ~> (~EnRoute(fi, w) \/ phase = "over")

\* "Regrouping is time-boxed: after 3 turns, resume activity" (galaxy.hpp:199).
RetreatEnds == \A fi \in FactionIds :
                 factions[fi].state = "RETREAT" ~>
                   (factions[fi].state # "RETREAT" \/ phase = "over")

\* "Total defensive strength present: garrison + population/5 + landed fleets"
\* (galaxy.hpp:125): a fleet stronger than all that is there besides itself
\* takes the enemy system on which it lands.
StrongerWins ==
  [][\A i \in arrivals :
       LET w == fleets[i].target
           others == stars[w].defense + stars[w].population \div 5 + Strength(Landed(w) \ {i})
       IN  (/\ phase = "land" /\ i \notin arrivals'
            /\ w \in Enemies(fleets[i].faction)
            /\ fleets[i].strength > others) => stars'[w].owner = fleets[i].faction]_vars
=============================================================================
