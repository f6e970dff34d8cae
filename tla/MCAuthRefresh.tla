--------------------------- MODULE MCAuthRefresh ---------------------------
(***************************************************************************)
(* Panel contents for the model-checked instances of AuthRefresh.           *)
(***************************************************************************)
EXTENDS AuthRefresh

BaseNode == [available |-> TRUE, valid |-> TRUE, class |-> 0, group |-> 0, dataPlane |-> 0]
BaseUser == [enabled |-> TRUE, admin |-> FALSE, class |-> 1, group |-> 0,
             password |-> 1, wellFormed |-> TRUE]
Base == [node |-> BaseNode, users |-> [u \in UserIDs |-> BaseUser]]

\* Each state changes one thing, or the two things a mixed read tears apart.
Panel == {Base,
          [Base EXCEPT !.users[1].password = 2],
          [Base EXCEPT !.users[1].enabled = FALSE],
          [Base EXCEPT !.users[2].wellFormed = FALSE],
          [Base EXCEPT !.node.class = 2, !.node.group = 1, !.users[2].admin = TRUE],
          [Base EXCEPT !.node.dataPlane = 1, !.users[2].enabled = FALSE],
          [Base EXCEPT !.node.available = FALSE],
          [Base EXCEPT !.node.valid = FALSE]}
=============================================================================
