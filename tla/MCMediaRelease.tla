--------------------------- MODULE MCMediaRelease ---------------------------
(* Instances of MediaRelease for TLC. *)
EXTENDS MediaRelease, TLC

CONSTANTS photo, post, reply, dm, forward, group, chat, other

\* One file all of them use: created alone, shared, unrecorded, pending with
\* and without an upload id, or held.  It was uploaded for a post, or into the
\* folder of a conversation.
OneFile == [t \in {post, reply, dm, forward, group} |-> {photo}]
Chats == (dm :> chat) @@ (forward :> other)
PostsFolder == [g \in {photo} |-> Nowhere]
ChatFolder == [g \in {photo} |-> chat]
Start(status, attached, multi) ==
  [g \in {photo} |-> [status |-> status, attached |-> attached, multi |-> multi]]
SomeStarts ==
  { Start("attached", {post, reply}, FALSE), Start("attached", {post, forward}, TRUE),
    Start("attached", {post, group}, FALSE), Start("none", {}, FALSE),
    Start("pending", {}, TRUE), Start("pending", {}, FALSE), Start("held", {dm}, FALSE) }

\* The workers are interchangeable.
AnyWorker == Permutations(Workers)
=============================================================================
