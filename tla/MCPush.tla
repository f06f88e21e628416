------------------------------- MODULE MCPush -------------------------------
(* Instances of Push for TLC. *)
EXTENDS Push

CONSTANTS a, b, c, t1, t2, t3, t4, j1, j2

Device(p, t) == [owner |-> p, token |-> t, online |-> FALSE]
Plain == [community |-> FALSE, to |-> {a, b}, given |-> << >>, all |-> FALSE, valid |-> TRUE]
Community == [Plain EXCEPT !.community = TRUE, !.to = {a, c}, !.given = <<t2, t2>>]
Base == [sessions |-> <<Device(a, t1), Device(b, t2), Device(a, t3)>>, members |-> {a, b},
         configured |-> TRUE, work |-> [j \in {j1, j2} |-> Plain]]
With(s, one, two) == [s EXCEPT !.work = [j \in {j1, j2} |-> IF j = j1 THEN one ELSE two]]

\* Three tokens in chunks of two; a token two sessions share; devices online;
\* pushes to all devices, to named tokens, with a message that is refused, to a
\* community, and without credentials.
SomeScenarios ==
  { With(Base, Plain, Community),
    With([Base EXCEPT !.sessions[2] = Device(b, t1)], Plain, [Plain EXCEPT !.to = {b}]),
    With([Base EXCEPT !.sessions[1].online = TRUE], [Plain EXCEPT !.all = TRUE],
         [Plain EXCEPT !.given = <<t1, t3, t2>>]),
    With(Base, [Plain EXCEPT !.valid = FALSE], [Plain EXCEPT !.given = <<t1>>]),
    With([Base EXCEPT !.configured = FALSE], Plain, Community),
    With([Base EXCEPT !.members = {b}], Community, [Plain EXCEPT !.to = {}]) }
=============================================================================
