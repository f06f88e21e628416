------------------------------ MODULE MCFanout ------------------------------
(* Instances of Fanout for TLC. *)
EXTENDS Fanout

Base == [community |-> FALSE, own |-> FALSE, anonymous |-> FALSE,
         private |-> FALSE, state |-> "live", job |-> "post",
         actor |-> 2, comment |-> "shown", posted |-> 1]

\* An ordinary post, community posts that may or may not reach followers,
\* comments with and without an id, and what ends without a page.
SomeScenarios ==
  { Base,
    [Base EXCEPT !.community = TRUE],
    [Base EXCEPT !.community = TRUE, !.own = TRUE],
    [Base EXCEPT !.job = "comment", !.anonymous = TRUE, !.community = TRUE],
    [Base EXCEPT !.job = "legacy", !.community = TRUE, !.private = TRUE],
    [Base EXCEPT !.job = "comment"],
    [Base EXCEPT !.job = "comment", !.actor = 1],
    [Base EXCEPT !.job = "legacy"],
    [Base EXCEPT !.state = "invalid"],
    [Base EXCEPT !.posted = 0] }

\* The author is person 1.  With TopFollowers = 2 the second choice has three
\* followers for two places.
SomeMemberships == { {}, {1, 4} }
SomeFollows == { <<0, 1, 1, 0>>, <<1, 1, 1, 0>> }
=============================================================================
