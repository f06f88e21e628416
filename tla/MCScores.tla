------------------------------ MODULE MCScores ------------------------------
(* Instances of Scores for TLC. *)
EXTENDS Scores

rank(n, update, change) == [kind |-> "rank", id |-> n, update |-> update, change |-> change]
affine(e, is, change) == [kind |-> "affinity", entity |-> e, interests |-> is, change |-> change]
viewed(e, is) == [affine(e, is, 1) EXCEPT !.kind = "view"]
chat(e, members, change) == [kind |-> "connection", actor |-> e, members |-> members, change |-> change]
follows(e, to, change) == [kind |-> "follow", actor |-> e, receiver |-> to, change |-> change]
new == [kind |-> "new"]

CONSTANTS alice, bob

\* Engagement with a new post.
Ranking ==
  { {new, rank(1, "react", 1), rank(2, "react", 1), rank(3, "react", -1)},
    {new, rank(1, "comment", 1), rank(2, "share", 1), rank(3, "comment", -1)},
    {new, rank(1, "share", 1), rank(2, "share", -1), rank(3, "other", 1)} }

\* Bumps of one entity, of two entities, and up and down.
Bumping ==
  { {affine(alice, {1, 2}, 1), affine(alice, {1, 2}, -1), affine(bob, {2}, 1)},
    {viewed(alice, {1, 2}), affine(alice, {1}, -1), viewed(bob, {})},
    {affine(alice, {1, 2}, 1), affine(bob, {1, 2}, 1), affine(bob, {1}, -1)},
    {chat(alice, {alice, bob}, 1), chat(bob, {alice}, 1), chat(alice, {bob}, -1)},
    {follows(alice, bob, 1), follows(alice, bob, -1), chat(bob, {bob}, 1), affine(bob, {1}, 1)} }

AllScenarios == Ranking \union Bumping
People == {alice, bob}
=============================================================================
