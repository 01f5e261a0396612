------------------------------ MODULE MCGalaxy ------------------------------
(* Model values for Galaxy.                                                *)
EXTENDS Galaxy

Home1 == <<-4, -4>>
Home2 == <<4, 4>>
Point == <<-3, -4>>      \* where faction 1 regroups
Near1 == <<-2, -2>>      \* two worlds that the player reaches
Near2 == <<-1, -1>>
Far   == <<-6, 0>>
Dark  == <<-7, 1>>       \* no one has seen it at the start

SomeWorlds == {Home1, Home2, Point, Near1, Near2, Far, Dark}

SkyWith(fertile) ==
  [w \in SomeWorlds |-> [black |-> w = Home2, fertile |-> w \in fertile, growth |-> 1]]

\* In the second the world nearest to faction 1 is settled by no fleet, but the
\* player can take it.
SomeSkies == {SkyWith({Near1, Near2, Far}), SkyWith({Point, Near2, Far, Dark})}

Diagonal == {<<0, 0>>, <<-1, -1>>, <<-2, -2>>}
=============================================================================
