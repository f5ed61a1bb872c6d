----------------------------- MODULE Community -----------------------------
(***************************************************************************)
(* Comments below a plugin and the likes they get.  Handlers look the      *)
(* comment up first and change it in a transaction afterwards.             *)
(***************************************************************************)
EXTENDS Naturals, FiniteSets

CONSTANTS
    Comments,      \* comments, by the order they may be written in
    Readers,       \* users, each with one request under way
    Missing        \* no parent

VARIABLES
    comment,       \* market_comments: parent, deleted, likes
    likes,         \* market_comment_likes
    handler        \* the request of a reader and what it looked up

vars == <<comment, likes, handler>>

Unwritten == [made |-> FALSE, parent |-> Missing, deleted |-> FALSE, likes |-> 0]
Quiet == [op |-> "none", comment |-> Missing]

Init ==
    /\ comment = [c \in Comments |-> Unwritten]
    /\ likes = {}
    /\ handler = [u \in Readers |-> Quiet]

Written(c) == comment[c].made

(* add_comment looks its parent up; like_comment and                       *)
(* delete_comment_by_user look the comment up, deleted or not.             *)
Look(u, op, c) ==
    /\ handler[u] = Quiet /\ Written(c)
    /\ op = "reply" => ~comment[c].deleted
    /\ handler' = [handler EXCEPT ![u] = [op |-> op, comment |-> c]]
    /\ UNCHANGED <<comment, likes>>

Insert(c, parent) ==
    /\ ~Written(c)
    /\ comment' = [comment EXCEPT ![c] = [Unwritten EXCEPT !.made = TRUE, !.parent = parent]]

AddComment(c) ==
    /\ Insert(c, Missing)
    /\ UNCHANGED <<likes, handler>>

AddReply(u, c) ==
    /\ handler[u].op = "reply"
    /\ Insert(c, handler[u].comment)
    /\ handler' = [handler EXCEPT ![u] = Quiet]
    /\ UNCHANGED likes

(* A bug: what the handler looked up is taken for what is there.           *)
StillThere(c) == Written(c)

(* The row is locked where it is not deleted.                              *)
Locked(c) == Written(c) /\ ~comment[c].deleted

(* A bug: every click counts.                                              *)
LikeTwice(u, c) ==
    /\ likes' = likes \cup {<<c, u>>}
    /\ comment' = [comment EXCEPT ![c].likes = @ + 1]

(* A like is counted where its row is new.                                 *)
InsertLike(u, c) ==
    IF <<c, u>> \in likes THEN UNCHANGED <<comment, likes>>
    ELSE /\ likes' = likes \cup {<<c, u>>}
         /\ comment' = [comment EXCEPT ![c].likes = @ + 1]

LikeComment(u) ==
    LET c == handler[u].comment IN
    /\ handler[u].op = "like"
    /\ IF Locked(c) THEN InsertLike(u, c) ELSE UNCHANGED <<comment, likes>>
    /\ handler' = [handler EXCEPT ![u] = Quiet]

UnlikeComment(u, c) ==
    /\ Locked(c) /\ <<c, u>> \in likes
    /\ likes' = likes \ {<<c, u>>}
    /\ comment' = [comment EXCEPT ![c].likes = IF @ > 0 THEN @ - 1 ELSE 0]
    /\ UNCHANGED handler

(* delete_comment, with the replies that are there.                        *)
DeleteComment(u) ==
    LET c == handler[u].comment IN
    /\ handler[u].op = "delete"
    /\ comment' = [d \in Comments |->
           IF d = c \/ (Written(d) /\ comment[d].parent = c)
           THEN [comment[d] EXCEPT !.deleted = TRUE] ELSE comment[d]]
    /\ handler' = [handler EXCEPT ![u] = Quiet]
    /\ UNCHANGED likes

(* A request is refused: the user is muted, or may not delete.             *)
GiveUp(u) ==
    /\ handler[u] # Quiet
    /\ handler' = [handler EXCEPT ![u] = Quiet]
    /\ UNCHANGED <<comment, likes>>

Next ==
    \/ \E c \in Comments : AddComment(c)
    \/ \E u \in Readers :
          \/ LikeComment(u) \/ DeleteComment(u) \/ GiveUp(u)
          \/ \E c \in Comments : AddReply(u, c) \/ UnlikeComment(u, c)
          \/ \E c \in Comments, op \in {"reply", "like", "delete"} : Look(u, op, c)
-----------------------------------------------------------------------------
TypeOK ==
    /\ comment \in [Comments -> [made : BOOLEAN, parent : Comments \cup {Missing},
                                 deleted : BOOLEAN, likes : 0..Cardinality(Readers)]]
    /\ likes \subseteq Comments \X Readers
    /\ handler \in [Readers -> [op : {"none", "reply", "like", "delete"},
                                comment : Comments \cup {Missing}]]

(* A comment shows as many likes as there are users who like it, however   *)
(* clicks are repeated and overlap (store.py, like_comment).               *)
LikesAreRows ==
    \A c \in Comments : comment[c].likes = Cardinality({u \in Readers : <<c, u>> \in likes})

(* A deleted comment stays deleted, and the like of a user who looked it   *)
(* up before it was deleted is not stored (store.py, like_comment).        *)
LeavesDeleted ==
    \A c \in Comments : comment[c].deleted =>
       /\ comment'[c] = comment[c]
       /\ \A u \in Readers : <<c, u>> \in likes' <=> <<c, u>> \in likes
=============================================================================
