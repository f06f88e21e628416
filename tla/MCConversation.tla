--------------------------- MODULE MCConversation ---------------------------
(* Instances of Conversation for TLC. *)
EXTENDS Conversation

CONSTANTS a, b, c, j1, j2

Line == [kind |-> "notice", actor |-> b, push |-> TRUE, responds |-> "none",
         valid |-> TRUE]
Builtin == [Line EXCEPT !.kind = "system", !.responds = "bot"]
Question == [Line EXCEPT !.kind = "webhook", !.responds = "system"]

Group == [realm |-> "group", members |-> {a}, exists |-> TRUE, listed |-> {a},
          work |-> [j \in {j1, j2} |-> Line]]
Direct == [Group EXCEPT !.realm = "none", !.members = {}, !.listed = {a, b}]
With(s, one, two) == [s EXCEPT !.work = [j \in {j1, j2} |-> IF j = j1 THEN one ELSE two]]

\* Two joins, the first of a new group; a join beside a built-in; somebody
\* who may leave and come back with a notice that does not count; a direct
\* conversation with a notice and a webhook, and one without a document; what
\* ends early.
SomeScenarios ==
  { With([Group EXCEPT !.members = {}, !.exists = FALSE, !.listed = {}],
         [Line EXCEPT !.push = FALSE], [Line EXCEPT !.push = FALSE, !.actor = a]),
    With(Group, Line, Builtin),
    With(Group, Line, [Line EXCEPT !.valid = FALSE]),
    With(Direct, Line, Question),
    With(Direct, [Question EXCEPT !.responds = "bot"], [Builtin EXCEPT !.responds = "none"]),
    With([Direct EXCEPT !.exists = FALSE, !.listed = {}], Builtin,
         [Question EXCEPT !.valid = FALSE]),
    With([Direct EXCEPT !.realm = "community"], [Line EXCEPT !.valid = FALSE], Question),
    With([Direct EXCEPT !.realm = "voice"], Line, [Builtin EXCEPT !.kind = "other"]),
    With([Direct EXCEPT !.listed = {a, c}], [Line EXCEPT !.actor = c], Builtin) }
=============================================================================
